---- MODULE Spec2Model ----
(***************************************************************************)
(* Streaming pre-aggregation engine (storage/aggregator.cc).               *)
(*                                                                         *)
(* The aggregator keeps one live bucket per bucket key in                  *)
(* aggr_buffer_map_, flushes closed buckets as rows of the aggregate       *)
(* table (and of its replicator), merges late rows into flushed rows and   *)
(* rebuilds its buckets in Init from the aggregate table and the base      *)
(* table's binlog.                                                         *)
(*                                                                         *)
(* Strings are sequences of characters, so that StrCat and substr are      *)
(* \o and SubSeq.  A nullable column is <<>> (NULL) or <<v>>.              *)
(***************************************************************************)
EXTENDS Integers, Sequences, FiniteSets, TLC

VARIABLES
    window_type_,      \* "kRowsNum" or "kRowsRange", fixed at construction
    window_size_,      \* rows, or milliseconds
    aggr_type_,        \* "kSum", "kMin", "kMax", "kCount", "kCountWhere", "kAvg"
    count_all,         \* CountAggregator: aggr_col = "*"
    status_,           \* "kUnInit", "kRecovering", "kInited"
    aggr_buffer_map_,  \* bucket key -> AggrBuffer (the live buckets)
    aggr_table_,       \* rows of the aggregate table, in the order of Put
    aggr_replicator_,  \* LogEntry records appended to the aggregate replicator
    base_log,          \* the base table's binlog: LogEntry records
    init_pc,           \* position of each caller of Aggregator::Init
    update_pc,         \* position and locals of each thread inside Update
    dimensions_,       \* the Dimension array every flush of the aggregator
                       \* writes its key into and hands to Put
    held,              \* the mutexes held: pairs <<thread, mutex>>, the mutex
                       \* being mu_ or the key of a bucket
    log_reader,        \* Init's replay loop: the reader and the loop's locals
    create_call,       \* the call of CreateAggregator: its bucket_size and,
                       \* once it has returned, what it returned
    ret,               \* the call that returned last and its result
    crashes,           \* history: the number of restarts so far
    lost,              \* history: a crash has dropped a tail of base_log
    synced,            \* history: every record of base_log went through a
                       \* successful live Update
    fed                \* history: the calls of Update made by the writer

vars == <<window_type_, window_size_, aggr_type_, count_all, status_,
          aggr_buffer_map_, aggr_table_, aggr_replicator_, base_log,
          init_pc, update_pc, dimensions_, held, log_reader, create_call, ret,
          crashes, lost, synced, fed>>

config == <<create_call, window_type_, window_size_, aggr_type_, count_all>>

(***************************************************************************)
(* Bounds of the model.                                                    *)
(***************************************************************************)
MaxLog == 3        \* rows written to the base table
MaxTable == 4      \* rows FlushAll may bring the aggregate table to
MaxCrash == 1      \* restarts
MaxTs == 2         \* timestamps are 0..MaxTs
MaxRows == 6       \* rows fed in the single-key window specifications
MaxBucketSize == 3 \* characters of the string bucket_size
MaxCalls == 2      \* calls of Update by the threads
MaxFlushed == 1    \* rows of the aggregate table at a call of FlushAll
MaxSumRows == 4    \* rows fed in any timestamp order to the SUM aggregator

PKs == {<<"a">>, <<"b">>}
Filters == {<<"x">>, <<"y">>}
\* The threads of the tablet that call Update, and a thread outside Update.
Writers == {1, 2}

NoCall == [pc |-> "idle"]

\* dimensions_ as the constructor leaves it: one Dimension of idx 0, no key.
NoDimensions == <<[idx |-> 0, key |-> <<>>]>>

\* No replay is under way.
NoReader == [pc |-> "closed"]

Callers == {1, 2}
NULLV == <<>>
index_pos_ == 0

IsNULL(col) == col = <<>>

Max2(a, b) == IF a >= b THEN a ELSE b
Min2(a, b) == IF a <= b THEN a ELSE b

RECURSIVE SumSeq(_)
SumSeq(s) == IF s = <<>> THEN 0 ELSE Head(s) + SumSeq(Tail(s))

(***************************************************************************)
(* AggrBuffer.  offs is a history field: the base offsets folded into the  *)
(* bucket; no operation reads it.                                          *)
(***************************************************************************)
AggrBuffer(key_end) ==
    [key_end_ |-> key_end, ts_begin_ |-> -1, ts_end_ |-> 0, aggr_cnt_ |-> 0,
     binlog_offset_ |-> 0, non_null_cnt_ |-> 0, aggr_val_ |-> 0, offs |-> {}]

clear(buffer) == AggrBuffer(buffer.key_end_)

AggrValEmpty(buffer) == buffer.non_null_cnt_ = 0

(***************************************************************************)
(* Field 4 of an aggregate-table row: the raw bytes of an int64, low byte  *)
(* first (values of the model fit 32 bits).                                *)
(***************************************************************************)
RECURSIVE Pow256(_)
Pow256(i) == IF i = 0 THEN 1 ELSE 256 * Pow256(i - 1)

ByteOf(n, i) == (n \div Pow256(i)) % 256

EncodeInt64(v) ==
    IF v >= 0
    THEN [i \in 1..8 |-> IF i <= 4 THEN ByteOf(v, i - 1) ELSE 0]
    ELSE [i \in 1..8 |-> IF i <= 4 THEN 255 - ByteOf(-v - 1, i - 1) ELSE 255]

DecodeInt64(s) ==
    IF s[8] >= 128
    THEN -(SumSeq([i \in 1..4 |-> (255 - s[i]) * Pow256(i - 1)])) - 1
    ELSE SumSeq([i \in 1..4 |-> s[i] * Pow256(i - 1)])

(***************************************************************************)
(* The kernels: SUM, MIN, MAX and AVG over an integer column, COUNT and     *)
(* COUNT_WHERE.  AVG keeps its sum in a double; the values fed are small   *)
(* integers, which a double holds exactly, so the sum is kept as an        *)
(* integer and its eight bytes are written as those of the integer.        *)
(***************************************************************************)
\* A kernel that counts the value without adding it.
SumUpdateAggrValNoAdd(row, buffer) ==
    IF IsNULL(row.val) THEN buffer
    ELSE [buffer EXCEPT !.non_null_cnt_ = @ + 1]

SumUpdateAggrVal(row, buffer) ==
    IF IsNULL(row.val) THEN buffer
    ELSE [buffer EXCEPT !.aggr_val_ = @ + row.val[1], !.non_null_cnt_ = @ + 1]

MinUpdateAggrVal(row, buffer) ==
    IF IsNULL(row.val) THEN buffer
    ELSE [buffer EXCEPT
              !.aggr_val_ = IF AggrValEmpty(buffer) \/ row.val[1] < @
                            THEN row.val[1] ELSE @,
              !.non_null_cnt_ = @ + 1]

MaxUpdateAggrVal(row, buffer) ==
    IF IsNULL(row.val) THEN buffer
    ELSE [buffer EXCEPT
              !.aggr_val_ = IF AggrValEmpty(buffer) \/ row.val[1] > @
                            THEN row.val[1] ELSE @,
              !.non_null_cnt_ = @ + 1]

\* A COUNT that counts a row twice.
CountUpdateAggrValTwice(row, buffer) ==
    IF count_all \/ ~IsNULL(row.val)
    THEN [buffer EXCEPT !.non_null_cnt_ = @ + 2]
    ELSE buffer

CountUpdateAggrVal(row, buffer) ==
    IF count_all \/ ~IsNULL(row.val)
    THEN [buffer EXCEPT !.non_null_cnt_ = @ + 1]
    ELSE buffer

\* An AVG kernel that takes a null for the value 0.
AvgUpdateAggrValNullAsZero(row, buffer) ==
    [buffer EXCEPT !.aggr_val_ = @ + (IF IsNULL(row.val) THEN 0 ELSE row.val[1]),
                   !.non_null_cnt_ = @ + 1]

AvgUpdateAggrVal(row, buffer) ==
    IF IsNULL(row.val) THEN buffer
    ELSE [buffer EXCEPT !.aggr_val_ = @ + row.val[1], !.non_null_cnt_ = @ + 1]

UpdateAggrVal(row, buffer) ==
    IF aggr_type_ = "kSum" THEN SumUpdateAggrVal(row, buffer)
    ELSE IF aggr_type_ = "kMin" THEN MinUpdateAggrVal(row, buffer)
    ELSE IF aggr_type_ = "kMax" THEN MaxUpdateAggrVal(row, buffer)
    ELSE IF aggr_type_ = "kAvg" THEN AvgUpdateAggrVal(row, buffer)
    ELSE CountUpdateAggrVal(row, buffer)

EncodeAggrVal(buffer) ==
    IF aggr_type_ \in {"kSum", "kMin", "kMax"} THEN EncodeInt64(buffer.aggr_val_)
    ELSE IF aggr_type_ = "kAvg"
    THEN EncodeInt64(buffer.aggr_val_) \o EncodeInt64(buffer.non_null_cnt_)
    ELSE EncodeInt64(buffer.non_null_cnt_)

DecodeAggrVal(field4, buffer) ==
    IF field4.null THEN buffer
    ELSE IF aggr_type_ \in {"kSum", "kMin", "kMax"}
    THEN [buffer EXCEPT !.aggr_val_ = DecodeInt64(field4.data)]
    ELSE IF aggr_type_ = "kAvg"
    THEN [buffer EXCEPT
              !.aggr_val_ = DecodeInt64(SubSeq(field4.data, 1, 8)),
              !.non_null_cnt_ = DecodeInt64(SubSeq(field4.data, 9, 16))]
    ELSE [buffer EXCEPT !.non_null_cnt_ = DecodeInt64(field4.data)]

GetAggregateKey(pk, row) ==
    IF aggr_type_ = "kCountWhere" THEN pk \o row.fv ELSE pk

(***************************************************************************)
(* The aggregate table: rows of one primary key are iterated by descending *)
(* ts_begin, and of two rows with the same ts_begin the one put last comes *)
(* first.                                                                  *)
(***************************************************************************)
RowIdx(table, key) == {i \in 1..Len(table) : table[i].pk = key}

\* The row an iterator over the rows idx of one key stands on first.
FirstOf(table, idx) ==
    CHOOSE i \in idx : \A j \in idx :
        \/ table[j].value.ts_begin < table[i].value.ts_begin
        \/ (table[j].value.ts_begin = table[i].value.ts_begin /\ j <= i)

\* it->Seek(key, ts): the rows of key the iterator still has to visit, those
\* whose ts_begin is below ts.
Seek(table, key, ts) ==
    {i \in RowIdx(table, key) : table[i].value.ts_begin < ts}

TablePKs(table) == {table[i].pk : i \in 1..Len(table)}

GetRecordCnt(table) == Len(table)

GetAggrBufferFromRowView(aggr_row, buffer) ==
    DecodeAggrVal(aggr_row.aggr_val,
        [buffer EXCEPT !.ts_begin_ = aggr_row.ts_begin,
                       !.ts_end_ = aggr_row.ts_end,
                       !.aggr_cnt_ = aggr_row.aggr_cnt,
                       !.binlog_offset_ = aggr_row.binlog_offset,
                       !.offs = aggr_row.offs])


(***************************************************************************)
(* Aggregator::FlushAggrBuffer.  w is the aggregator's mutable world       *)
(* [map, table, repl]; put_ok is the result of aggr_table_->Put.           *)
(***************************************************************************)
\* Field 4: NULL for MIN and MAX when the bucket holds no value.
EncodeField4(buffer) ==
    IF aggr_type_ \in {"kMax", "kMin"} /\ AggrValEmpty(buffer)
    THEN [null |-> TRUE, data |-> <<>>]
    ELSE [null |-> FALSE, data |-> EncodeAggrVal(buffer)]

\* A row that publishes NULL for MIN only.
EncodeRowMinOnly(aggr_key, buffer) ==
    LET key == IF buffer.key_end_ = Len(aggr_key) THEN aggr_key
               ELSE SubSeq(aggr_key, 1, Min2(buffer.key_end_, Len(aggr_key)))
        filter_key == IF buffer.key_end_ = Len(aggr_key) THEN <<>>
                      ELSE SubSeq(aggr_key, buffer.key_end_ + 1, Len(aggr_key))
    IN [key |-> key,
        ts_begin |-> buffer.ts_begin_,
        ts_end |-> buffer.ts_end_,
        aggr_cnt |-> buffer.aggr_cnt_,
        aggr_val |-> IF aggr_type_ = "kMin" /\ AggrValEmpty(buffer)
                     THEN [null |-> TRUE, data |-> <<>>]
                     ELSE [null |-> FALSE, data |-> EncodeAggrVal(buffer)],
        binlog_offset |-> buffer.binlog_offset_,
        filter_key |-> [null |-> filter_key = <<>>, data |-> filter_key],
        offs |-> buffer.offs]

EncodeRow(aggr_key, buffer) ==
    LET key == IF buffer.key_end_ = Len(aggr_key) THEN aggr_key
               ELSE SubSeq(aggr_key, 1, Min2(buffer.key_end_, Len(aggr_key)))
        filter_key == IF buffer.key_end_ = Len(aggr_key) THEN <<>>
                      ELSE SubSeq(aggr_key, buffer.key_end_ + 1, Len(aggr_key))
    IN [key |-> key,
        ts_begin |-> buffer.ts_begin_,
        ts_end |-> buffer.ts_end_,
        aggr_cnt |-> buffer.aggr_cnt_,
        aggr_val |-> EncodeField4(buffer),
        binlog_offset |-> buffer.binlog_offset_,
        filter_key |-> [null |-> filter_key = <<>>, data |-> filter_key],
        offs |-> buffer.offs]

\* A flush whose Put takes the place of the earlier rows of the same key and
\* ts_begin.
FlushAggrBufferReplacing(w, aggr_key, buffer, put_ok) ==
    LET encoded_row == EncodeRow(aggr_key, buffer)
        dimensions == <<[idx |-> 0, key |-> encoded_row.key]>>
        entry == [pk |-> encoded_row.key, value |-> encoded_row,
                  dimensions |-> dimensions]
        others == SelectSeq(w.table,
                            LAMBDA r : ~(/\ r.pk = dimensions[1].key
                                         /\ r.value.ts_begin = encoded_row.ts_begin))
    IN IF ~put_ok THEN [w |-> [w EXCEPT !.dims = dimensions], ok |-> FALSE]
       ELSE [w |-> [w EXCEPT
                      !.dims = dimensions,
                      !.table = Append(others, [pk |-> dimensions[1].key,
                                                value |-> encoded_row]),
                      !.repl = Append(@, entry)],
             ok |-> TRUE]

FlushAggrBuffer(w, aggr_key, buffer, put_ok) ==
    LET encoded_row == EncodeRow(aggr_key, buffer)
        dimensions == <<[idx |-> 0, key |-> encoded_row.key]>>
        entry == [pk |-> encoded_row.key, value |-> encoded_row,
                  dimensions |-> dimensions]
    IN IF ~put_ok THEN [w |-> [w EXCEPT !.dims = dimensions], ok |-> FALSE]
       ELSE [w |-> [w EXCEPT
                      !.dims = dimensions,
                      !.table = Append(@, [pk |-> dimensions[1].key,
                                           value |-> encoded_row]),
                      !.repl = Append(@, entry)],
             ok |-> TRUE]

(***************************************************************************)
(* Aggregator::UpdateFlushedBuffer: the late-arrival merge.                *)
(***************************************************************************)
InBufferRange(cur_ts, buffer) ==
    ~(cur_ts > buffer.ts_end_ \/ cur_ts < buffer.ts_begin_)

\* The first part of UpdateFlushedBuffer, up to the call of FlushAggrBuffer:
\* the bucket to write, read from the aggregate table as it is now.
MergedBuffer(table, key, row, cur_ts, offset) ==
    LET idx == Seek(table, key, cur_ts + 1)
        found == GetAggrBufferFromRowView(table[FirstOf(table, idx)].value,
                                          AggrBuffer(Len(key)))
        tmp_buffer ==
            IF idx # {}
            THEN [found EXCEPT !.aggr_cnt_ = @ + 1, !.binlog_offset_ = offset,
                               !.offs = @ \cup {offset}]
            ELSE [AggrBuffer(Len(key)) EXCEPT
                      !.ts_begin_ = cur_ts, !.ts_end_ = cur_ts,
                      !.aggr_cnt_ = 1, !.binlog_offset_ = offset,
                      !.offs = {offset}]
    IN IF idx # {} /\ ~InBufferRange(cur_ts, found)
       THEN [ok |-> FALSE, buffer |-> found]
       ELSE [ok |-> TRUE, buffer |-> UpdateAggrVal(row, tmp_buffer)]

\* A merge that keeps the binlog_offset of the row it found.
UpdateFlushedBufferKeepOffset(w, key, row, cur_ts, offset, put_ok) ==
    LET idx == Seek(w.table, key, cur_ts + 1)
        found == GetAggrBufferFromRowView(w.table[FirstOf(w.table, idx)].value,
                                          AggrBuffer(Len(key)))
        tmp_buffer ==
            IF idx # {}
            THEN [found EXCEPT !.aggr_cnt_ = @ + 1, !.offs = @ \cup {offset}]
            ELSE [AggrBuffer(Len(key)) EXCEPT
                      !.ts_begin_ = cur_ts, !.ts_end_ = cur_ts,
                      !.aggr_cnt_ = 1, !.binlog_offset_ = offset,
                      !.offs = {offset}]
    IN IF idx # {} /\ ~InBufferRange(cur_ts, found)
       THEN [w |-> w, ok |-> FALSE]
       ELSE FlushAggrBuffer(w, key, UpdateAggrVal(row, tmp_buffer), put_ok)

UpdateFlushedBuffer(w, key, row, cur_ts, offset, put_ok) ==
    LET m == MergedBuffer(w.table, key, row, cur_ts, offset)
    IN IF ~m.ok THEN [w |-> w, ok |-> FALSE]
       ELSE FlushAggrBuffer(w, key, m.buffer, put_ok)

(***************************************************************************)
(* Aggregator::CheckBufferFilled and Aggregator::Update.                   *)
(***************************************************************************)
\* A time window that closes one timestamp early.
CheckBufferFilledEarly(cur_ts, buffer_end, buffer_cnt) ==
    \/ window_type_ = "kRowsRange" /\ cur_ts >= buffer_end
    \/ window_type_ = "kRowsNum" /\ buffer_cnt >= window_size_

\* A row-count window that closes one row late.
CheckBufferFilledLate(cur_ts, buffer_end, buffer_cnt) ==
    \/ window_type_ = "kRowsRange" /\ cur_ts > buffer_end
    \/ window_type_ = "kRowsNum" /\ buffer_cnt > window_size_

CheckBufferFilled(cur_ts, buffer_end, buffer_cnt) ==
    \/ window_type_ = "kRowsRange" /\ cur_ts > buffer_end
    \/ window_type_ = "kRowsNum" /\ buffer_cnt >= window_size_

\* The gate without its kRecovering case.
StatusGateUnInitOnly(recover, stat) == ~recover /\ stat = "kUnInit"

StatusGate(recover, stat) == ~recover /\ stat # "kInited"

\* init buffer timestamp range
InitRange(buffer, cur_ts) ==
    IF buffer.ts_begin_ = -1
    THEN [buffer EXCEPT !.ts_begin_ = cur_ts,
                        !.ts_end_ = IF window_type_ = "kRowsRange"
                                    THEN cur_ts + window_size_ - 1 ELSE @]
    ELSE buffer

\* A reopening that leaves ts_end_ as clear() set it.
ReopenBeginOnly(buffer) ==
    LET latest_ts == buffer.ts_end_ + 1
        latest_binlog == buffer.binlog_offset_ + 1
    IN [clear(buffer) EXCEPT
           !.ts_begin_ = latest_ts,
           !.binlog_offset_ = latest_binlog]

\* The bucket that follows buffer: used by the rollover and by Init's seeding.
Reopen(buffer) ==
    LET latest_ts == buffer.ts_end_ + 1
        latest_binlog == buffer.binlog_offset_ + 1
    IN [clear(buffer) EXCEPT
           !.ts_begin_ = latest_ts,
           !.binlog_offset_ = latest_binlog,
           !.ts_end_ = IF window_type_ = "kRowsRange"
                       THEN latest_ts + window_size_ - 1 ELSE @]

\* A guard that lets every offset through.
OffsetGuardOpen(offset, buffer) == FALSE

OffsetGuard(offset, buffer) == offset < buffer.binlog_offset_

\* A late-arrival test that never finds a row late.
IsLateNever(cur_ts, buffer) == FALSE

IsLate(cur_ts, buffer) == cur_ts < buffer.ts_begin_

\* The fold up to the call of the kernel.
FoldBegin(buffer, cur_ts, offset) ==
    [buffer EXCEPT !.aggr_cnt_ = @ + 1,
                   !.binlog_offset_ = offset,
                   !.ts_end_ = IF window_type_ = "kRowsNum" THEN cur_ts ELSE @,
                   !.offs = @ \cup {offset}]

Fold(buffer, row, cur_ts, offset) ==
    UpdateAggrVal(row, FoldBegin(buffer, cur_ts, offset))

Update(w, stat, key, row, offset, recover, put_ok) ==
    IF StatusGate(recover, stat) THEN [w |-> w, ok |-> FALSE]
    ELSE
    LET cur_ts == row.ts
        aggr_key == GetAggregateKey(key, row)
        map0 == IF aggr_key \in DOMAIN w.map THEN w.map
                ELSE w.map @@ (aggr_key :> AggrBuffer(Len(key)))
        b1 == InitRange(map0[aggr_key], cur_ts)
        filled == CheckBufferFilled(cur_ts, b1.ts_end_, b1.aggr_cnt_)
        b2 == IF filled THEN Reopen(b1) ELSE b1
        w1 == [w EXCEPT !.map = [map0 EXCEPT ![aggr_key] = b2]]
        w2 == IF filled THEN FlushAggrBuffer(w1, aggr_key, b1, put_ok).w ELSE w1
    IN IF OffsetGuard(offset, b2) THEN [w |-> w2, ok |-> recover]
       ELSE IF IsLate(cur_ts, b2)
            THEN IF recover THEN [w |-> w2, ok |-> TRUE]
                 ELSE UpdateFlushedBuffer(w2, key, row, cur_ts, offset, put_ok)
            ELSE [w |-> [w2 EXCEPT !.map[aggr_key] = Fold(b2, row, cur_ts, offset)],
                  ok |-> TRUE]

(***************************************************************************)
(* Aggregator::FlushAll.  The snapshot is taken under mu_; the buckets are *)
(* flushed in the iteration order of an unordered_map, here order.         *)
(***************************************************************************)
Perms(S) ==
    {f \in [1..Cardinality(S) -> S] : \A i, j \in DOMAIN f : f[i] = f[j] => i = j}

RECURSIVE FlushEach(_, _, _, _)
FlushEach(w, flushed_buffer_map, order, i) ==
    IF i > Len(order) THEN [w |-> w, ok |-> TRUE]
    ELSE LET r == FlushAggrBuffer(w, order[i], flushed_buffer_map[order[i]], TRUE)
         IN IF ~r.ok THEN [w |-> r.w, ok |-> FALSE]
            ELSE FlushEach(r.w, flushed_buffer_map, order, i + 1)

ToFlush(map) == {k \in DOMAIN map : map[k].aggr_cnt_ # 0}

(***************************************************************************)
(* Aggregator::Init: seeding from the aggregate table, replay of the base  *)
(* binlog through Update(recover = true), and the final offset check.      *)
(***************************************************************************)
SeedRows(table) ==
    {table[FirstOf(table, RowIdx(table, pk))].value : pk \in TablePKs(table)}

SetMin(S) == CHOOSE x \in S : \A y \in S : x <= y
SetMax(S) == CHOOSE x \in S : \A y \in S : x >= y

recovery_offset(table) ==
    IF GetRecordCnt(table) = 0 THEN 0
    ELSE SetMin({r.binlog_offset : r \in SeedRows(table)})

aggr_latest_offset(table) ==
    SetMax({0} \cup {r.binlog_offset : r \in SeedRows(table)})

SeedBuffer(map, table, pk) ==
    LET aggr_row == table[FirstOf(table, RowIdx(table, pk))].value
        buffer == IF pk \in DOMAIN map THEN map[pk] ELSE AggrBuffer(Len(pk))
    IN Reopen(GetAggrBufferFromRowView(aggr_row, buffer))

Seed(map, table) ==
    [k \in DOMAIN map \cup TablePKs(table) |->
        IF k \in TablePKs(table) THEN SeedBuffer(map, table, k) ELSE map[k]]

FollowedDims(entry) ==
    {i \in 1..Len(entry.dimensions) : entry.dimensions[i].idx = index_pos_}

ReplayEntry(w, entry) ==
    IF FollowedDims(entry) = {} THEN w
    ELSE Update(w, "kRecovering", entry.dimensions[SetMin(FollowedDims(entry))].key,
                entry.value, entry.log_index, TRUE, TRUE).w

RECURSIVE Replay(_, _, _, _)
Replay(w, log, i, cur_offset) ==
    IF i > Len(log) THEN [w |-> w, cur_offset |-> cur_offset]
    ELSE IF cur_offset >= log[i].log_index THEN Replay(w, log, i + 1, cur_offset)
    ELSE IF log[i].method_type = "kDelete" THEN Replay(w, log, i + 1, cur_offset)
    ELSE Replay(ReplayEntry(w, log[i]), log, i + 1, log[i].log_index)

BehindCheck(cur_offset, latest_offset) == cur_offset < latest_offset

Recover(w, log) ==
    LET seeded == [w EXCEPT !.map = Seed(w.map, w.table)]
        r == Replay(seeded, log, 1, recovery_offset(w.table))
    IN IF BehindCheck(r.cur_offset, aggr_latest_offset(w.table))
       THEN [w |-> r.w, stat |-> "kUnInit", ok |-> FALSE]
       ELSE [w |-> r.w, stat |-> "kInited", ok |-> TRUE]

(***************************************************************************)
(* The state after construction, and the operations as actions.            *)
(***************************************************************************)
World == [map |-> aggr_buffer_map_, table |-> aggr_table_,
          repl |-> aggr_replicator_, dims |-> dimensions_]

SetWorld(w) ==
    /\ aggr_buffer_map_' = w.map
    /\ aggr_table_' = w.table
    /\ aggr_replicator_' = w.repl
    /\ dimensions_' = w.dims

\* The state after construction; count_all is set when aggr_col is "*".
ConstructedOver(windows, aggr_types, aggr_cols) ==
    /\ \E win \in windows : window_type_ = win[1] /\ window_size_ = win[2]
    /\ aggr_type_ \in aggr_types
    /\ \E aggr_col \in aggr_cols :
           count_all = (aggr_type_ \in {"kCount", "kCountWhere"} /\ aggr_col = "*")
    /\ status_ = "kUnInit"
    /\ aggr_buffer_map_ = <<>>
    /\ aggr_table_ = <<>>
    /\ aggr_replicator_ = <<>>
    /\ base_log = <<>>
    /\ init_pc = [c \in Callers |-> "idle"]
    /\ update_pc = [t \in Writers |-> NoCall]
    /\ dimensions_ = NoDimensions
    /\ held = {}
    /\ log_reader = NoReader
    /\ create_call = [pc |-> "constructed"]
    /\ ret = [op |-> "new", ok |-> TRUE]
    /\ crashes = 0
    /\ lost = FALSE
    /\ synced = TRUE
    /\ fed = <<>>

Constructed(windows, aggr_types) ==
    ConstructedOver(windows, aggr_types, {"col3"})

Init == Constructed({<<"kRowsNum", 2>>, <<"kRowsRange", 2>>}, {"kSum"})

FilterValues == IF aggr_type_ = "kCountWhere" THEN Filters ELSE {<<"x">>}

BaseRow(ts, val, fv) == [ts |-> ts, val |-> val, fv |-> fv]

\* The tablet writes a row to the base table, which appends it to the binlog,
\* and hands it to the aggregator with the binlog offset.
Put(key, row) ==
    /\ LET offset == Len(base_log) + 1
           entry == [log_index |-> offset, method_type |-> "kPut",
                     dimensions |-> <<[idx |-> index_pos_, key |-> key]>>,
                     value |-> row]
           r == Update(World, status_, key, row, offset, FALSE, TRUE)
       IN /\ base_log' = Append(base_log, entry)
          /\ SetWorld(r.w)
          /\ ret' = [op |-> "Update", ok |-> r.ok]
          /\ synced' = (synced /\ r.ok)
          /\ fed' = Append(fed, [key |-> key, row |-> row, offset |-> offset,
                                 handed |-> TRUE, ok |-> r.ok])
    /\ UNCHANGED <<config, log_reader, held, update_pc, status_, init_pc, crashes, lost>>

\* The same while aggr_table_->Put fails.
PutFailing(key, row) ==
    /\ LET offset == Len(base_log) + 1
           entry == [log_index |-> offset, method_type |-> "kPut",
                     dimensions |-> <<[idx |-> index_pos_, key |-> key]>>,
                     value |-> row]
           r == Update(World, status_, key, row, offset, FALSE, FALSE)
       IN /\ base_log' = Append(base_log, entry)
          /\ SetWorld(r.w)
          /\ ret' = [op |-> "Update", ok |-> r.ok]
          /\ synced' = (synced /\ r.ok)
          /\ fed' = Append(fed, [key |-> key, row |-> row, offset |-> offset,
                                 handed |-> TRUE, ok |-> r.ok])
    /\ UNCHANGED <<config, log_reader, held, update_pc, status_, init_pc, crashes, lost>>

\* A binlog record the aggregator is not handed: a delete, or a put that does
\* not carry the followed index.
LogOnly(method, idx) ==
    /\ fed' = Append(fed, [key |-> <<"a">>, row |-> BaseRow(0, <<1>>, <<"x">>),
                           offset |-> Len(base_log) + 1, handed |-> FALSE,
                           ok |-> TRUE])
    /\ base_log' = Append(base_log,
           [log_index |-> Len(base_log) + 1, method_type |-> method,
            dimensions |-> <<[idx |-> idx, key |-> <<"a">>]>>,
            value |-> BaseRow(0, <<1>>, <<"x">>)])
    /\ ret' = [op |-> "LogOnly", ok |-> TRUE]
    /\ UNCHANGED <<config, dimensions_, log_reader, held, update_pc, status_, aggr_buffer_map_, aggr_table_,
                   aggr_replicator_, init_pc, crashes, lost, synced>>

FlushAll(order) ==
    /\ LET flushed_buffer_map == [k \in ToFlush(aggr_buffer_map_) |->
                                     aggr_buffer_map_[k]]
           r == FlushEach(World, flushed_buffer_map, order, 1)
       IN /\ order \in Perms(ToFlush(aggr_buffer_map_))
          /\ Len(aggr_table_) + Len(order) <= MaxTable
          /\ SetWorld(r.w)
          /\ ret' = [op |-> "FlushAll", ok |-> r.ok]
    /\ UNCHANGED <<config, log_reader, held, update_pc, status_, base_log, init_pc, crashes, lost, synced, fed>>

\* Init, up to the release of mu_.
InitCheck(c, has_replicator) ==
    /\ init_pc[c] = "idle"
    /\ IF status_ # "kUnInit"
       THEN /\ ret' = [op |-> "Init", ok |-> TRUE]
            /\ UNCHANGED init_pc
       ELSE IF ~has_replicator
       THEN /\ ret' = [op |-> "Init", ok |-> FALSE]
            /\ UNCHANGED init_pc
       ELSE /\ init_pc' = [init_pc EXCEPT ![c] = "checked"]
            /\ UNCHANGED ret
    /\ UNCHANGED <<config, dimensions_, log_reader, held, update_pc, status_, aggr_buffer_map_, aggr_table_,
                   aggr_replicator_, base_log, crashes, lost, synced, fed>>

\* status_.store(kRecovering)
InitStore(c) ==
    /\ init_pc[c] = "checked"
    /\ status_' = "kRecovering"
    /\ init_pc' = [init_pc EXCEPT ![c] = "recovering"]
    /\ UNCHANGED <<config, dimensions_, log_reader, held, update_pc, aggr_buffer_map_, aggr_table_, aggr_replicator_,
                   base_log, ret, crashes, lost, synced, fed>>

\* The rest of Init: the empty case, or seeding, replay and the final check.
InitRecover(c) ==
    /\ init_pc[c] = "recovering"
    /\ init_pc' = [init_pc EXCEPT ![c] = "idle"]
    /\ IF GetRecordCnt(aggr_table_) = 0 /\ base_log = <<>>
       THEN /\ status_' = "kInited"
            /\ ret' = [op |-> "Init", ok |-> TRUE]
            /\ UNCHANGED <<aggr_buffer_map_, aggr_table_, aggr_replicator_, dimensions_>>
       ELSE LET r == Recover(World, base_log)
            IN /\ status_' = r.stat
               /\ ret' = [op |-> "Recover", ok |-> r.ok]
               /\ SetWorld(r.w)
    /\ UNCHANGED <<config, log_reader, held, update_pc, base_log, crashes, lost, synced, fed>>

\* The process stops and a new aggregator is constructed over the surviving
\* aggregate table; the base binlog keeps its first n records.
Crash(n) ==
    /\ n \in 0..Len(base_log)
    /\ crashes < MaxCrash
    /\ crashes' = crashes + 1
    /\ base_log' = SubSeq(base_log, 1, n)
    /\ lost' = (lost \/ n < Len(base_log))
    /\ status_' = "kUnInit"
    /\ aggr_buffer_map_' = <<>>
    /\ init_pc' = [c \in Callers |-> "idle"]
    /\ ret' = [op |-> "new", ok |-> TRUE]
    /\ update_pc' = [t \in Writers |-> NoCall]
    /\ dimensions_' = NoDimensions
    /\ held' = {}
    /\ log_reader' = NoReader
    /\ UNCHANGED <<config, aggr_table_, aggr_replicator_, synced, fed>>

(***************************************************************************)
(* Aggregator::Init after status_.store(kRecovering), as the steps of its   *)
(* replay loop.  The log reader reads the records of base_log one after the *)
(* other from one binlog file.  log_reader holds the reader's position pos, *)
(* whether the reader is broken (every read fails from then on), the locals *)
(* cur_offset and aggr_latest_offset of Init, whether a read or a parse has *)
(* failed in this replay, and the parity spin of the reads that failed      *)
(* without moving the reader.                                               *)
(***************************************************************************)
\* What ReadNextRecord and ParseFromString make of the next record: the
\* entry, a record that does not parse, a status that is neither ok, nor
\* WaitRecord, nor Eof with the reader past the record, or the same with
\* the reader broken.
ReadOutcomes == {"ok", "unparsable", "Corruption", "IOError"}

\* Lines 229-272: the empty case, or the buckets seeded from the aggregate
\* table and the log reader opened.
InitSeed(c) ==
    /\ init_pc[c] = "recovering"
    /\ IF GetRecordCnt(aggr_table_) = 0 /\ base_log = <<>>
       THEN /\ status_' = "kInited"
            /\ ret' = [op |-> "Init", ok |-> TRUE]
            /\ init_pc' = [init_pc EXCEPT ![c] = "idle"]
            /\ UNCHANGED <<aggr_buffer_map_, log_reader>>
       ELSE /\ aggr_buffer_map_' = Seed(aggr_buffer_map_, aggr_table_)
            /\ log_reader' = [pc |-> "open", pos |-> 1, broken |-> FALSE,
                              cur_offset |-> recovery_offset(aggr_table_),
                              aggr_latest_offset |-> aggr_latest_offset(aggr_table_),
                              failed |-> FALSE, spin |-> 0]
            /\ init_pc' = [init_pc EXCEPT ![c] = "replaying"]
            /\ UNCHANGED <<status_, ret>>
    /\ UNCHANGED <<config, dimensions_, held, update_pc, aggr_table_,
                   aggr_replicator_, base_log, crashes, lost, synced, fed>>

\* Lines 273-321, one turn of the loop on a record: the read, the parse, the
\* tests of the entry, the replayed Update.
InitReadRecord(c, outcome) ==
    /\ init_pc[c] = "replaying"
    /\ outcome \in ReadOutcomes
    /\ log_reader.broken => outcome = "IOError"
    /\ outcome \in {"ok", "unparsable", "Corruption"} => log_reader.pos <= Len(base_log)
    /\ IF outcome = "IOError"
       THEN /\ log_reader' = [log_reader EXCEPT !.broken = TRUE, !.failed = TRUE,
                                                !.spin = 1 - @]
            /\ UNCHANGED <<aggr_buffer_map_, aggr_table_, aggr_replicator_,
                           dimensions_>>
       ELSE IF outcome \in {"unparsable", "Corruption"}
       THEN /\ log_reader' = [log_reader EXCEPT !.pos = @ + 1, !.failed = TRUE]
            /\ UNCHANGED <<aggr_buffer_map_, aggr_table_, aggr_replicator_,
                           dimensions_>>
       ELSE LET entry == base_log[log_reader.pos]
            IN IF \/ log_reader.cur_offset >= entry.log_index
                  \/ entry.method_type = "kDelete"
               THEN /\ log_reader' = [log_reader EXCEPT !.pos = @ + 1]
                    /\ UNCHANGED <<aggr_buffer_map_, aggr_table_,
                                   aggr_replicator_, dimensions_>>
               ELSE /\ SetWorld(ReplayEntry(World, entry))
                    /\ log_reader' = [log_reader EXCEPT
                           !.pos = @ + 1, !.cur_offset = entry.log_index]
    /\ UNCHANGED <<config, held, update_pc, status_, base_log, init_pc, ret,
                   crashes, lost, synced, fed>>

\* Lines 276-291 and 322-329: WaitRecord with no newer binlog file, or Eof
\* in the same file, ends the loop; Init compares cur_offset and returns.
InitReadEnd(c, status) ==
    /\ init_pc[c] = "replaying"
    /\ status \in {"WaitRecord", "Eof"}
    /\ ~log_reader.broken
    /\ log_reader.pos > Len(base_log)
    /\ LET behind == BehindCheck(log_reader.cur_offset,
                                 log_reader.aggr_latest_offset)
       IN /\ status_' = IF behind THEN "kUnInit" ELSE "kInited"
          /\ ret' = [op |-> "Recover", ok |-> ~behind]
    /\ init_pc' = [init_pc EXCEPT ![c] = "idle"]
    /\ log_reader' = NoReader
    /\ UNCHANGED <<config, dimensions_, held, update_pc, aggr_buffer_map_,
                   aggr_table_, aggr_replicator_, base_log, crashes, lost,
                   synced, fed>>

\* A step of the thread that is in Init.
InitStep(c) ==
    \/ InitStore(c)
    \/ InitSeed(c)
    \/ \E outcome \in ReadOutcomes : InitReadRecord(c, outcome)
    \/ \E status \in {"WaitRecord", "Eof"} : InitReadEnd(c, status)

Timestamps == 0..MaxTs

(***************************************************************************)
(* CreateAggregator: the window given by the string bucket_size.  A        *)
(* string is a sequence of characters.  window_size is a uint32_t and the  *)
(* products are computed in int; a value of 32 bits is kept as its two     *)
(* halves of 16 bits, [hi, lo], and a product as [hi, lo] with hi as large *)
(* as the product needs.                                                   *)
(***************************************************************************)
Chars == {"0", "1", "5", "s", "m", "h", "D", "x", " "}

Digits == {"0", "1", "5"}

RECURSIVE StringsUpTo(_)
StringsUpTo(n) ==
    IF n = 0 THEN {<<>>}
    ELSE LET shorter == StringsUpTo(n - 1)
         IN shorter \cup {Append(str, c) : str \in shorter, c \in Chars}

\* ::openmldb::base::IsNumber
IsNumber(str) == str # <<>> /\ \A i \in 1..Len(str) : str[i] \in Digits

DigitOf(c) == IF c = "0" THEN 0 ELSE IF c = "1" THEN 1 ELSE 5

\* std::stoi of a string of digits
RECURSIVE stoi(_)
stoi(str) ==
    IF str = <<>> THEN 0
    ELSE 10 * stoi(SubSeq(str, 1, Len(str) - 1)) + DigitOf(str[Len(str)])

tolower(c) == IF c = "D" THEN "d" ELSE c

RECURSIVE TrimLeft(_)
TrimLeft(str) ==
    IF str # <<>> /\ str[1] = " " THEN TrimLeft(Tail(str)) ELSE str

RECURSIVE TrimRight(_)
TrimRight(str) ==
    IF str # <<>> /\ str[Len(str)] = " "
    THEN TrimRight(SubSeq(str, 1, Len(str) - 1)) ELSE str

\* boost::trim
trim(str) == TrimLeft(TrimRight(str))

\* The milliseconds of a time unit: 1000, 1000 * 60, 1000 * 60 * 60 and
\* 1000 * 60 * 60 * 24.
MillisOf(time_unit) ==
    IF time_unit = "s" THEN 1000
    ELSE IF time_unit = "m" THEN 1000 * 60
    ELSE IF time_unit = "h" THEN 1000 * 60 * 60
    ELSE 1000 * 60 * 60 * 24

Half == 65536

\* The product n * millis, in halves.
Product(n, millis) ==
    LET low == n * (millis % Half)
    IN [hi |-> n * (millis \div Half) + low \div Half, lo |-> low % Half]

\* The product fits an int.
FitsInt(p) == p.hi < Half \div 2

\* What a call can return.  A product that does not fit an int is a signed
\* overflow, undefined behaviour: the build either keeps the low 32 bits or
\* traps, and then the call does not return.
NoAggregator == [returned |-> TRUE, aggregator |-> FALSE]

Aggregator(window_type, p) ==
    [returned |-> TRUE, aggregator |-> TRUE, window_type |-> window_type,
     window_size |-> p]

WindowSizes(p) ==
    IF FitsInt(p) THEN {Aggregator("kRowsRange", p)}
    ELSE {Aggregator("kRowsRange", [hi |-> p.hi % Half, lo |-> p.lo]),
          [returned |-> FALSE]}

Outcomes(bucket_size) ==
    IF IsNumber(bucket_size)
    THEN {Aggregator("kRowsNum", Product(stoi(bucket_size), 1))}
    ELSE IF bucket_size = <<>> THEN {NoAggregator}
    ELSE LET time_unit == tolower(bucket_size[Len(bucket_size)])
             time_size == trim(SubSeq(bucket_size, 1, Len(bucket_size) - 1))
         IN IF ~IsNumber(time_size) THEN {NoAggregator}
            ELSE IF time_unit \in {"s", "m", "h", "d"}
            THEN WindowSizes(Product(stoi(time_size), MillisOf(time_unit)))
            ELSE {NoAggregator}

CreateAggregator ==
    /\ create_call.pc = "called"
    /\ \E o \in Outcomes(create_call.bucket_size) :
           create_call' = [pc |-> "done", bucket_size |-> create_call.bucket_size,
                           result |-> o]
    /\ ret' = [op |-> "CreateAggregator", ok |-> TRUE]
    /\ UNCHANGED <<window_type_, window_size_, aggr_type_, count_all, status_,
                   aggr_buffer_map_, aggr_table_, aggr_replicator_, base_log,
                   init_pc, update_pc, dimensions_, held, log_reader, crashes,
                   lost, synced, fed>>

(***************************************************************************)
(* Aggregator::Update as the steps of a thread.  The aggregator's mutex    *)
(* mu_ is held for the lookup only; the bucket's mutex is held from line   *)
(* 134 on, released around the flush of a rollover (156-158) and released  *)
(* before the late-arrival merge (172).  A step below is a stretch of the  *)
(* code between two such points; a thread at "fold" holds the bucket's     *)
(* mutex, between the update of the counters (183-187) and the kernel      *)
(* (188).                                                                  *)
(***************************************************************************)
\* The aggregator's mutex, named as the buckets' mutexes are, by a string.
mu_ == <<"mu_">>

\* Unlock that releases mu_ only: a bucket's mutex stays with its holder.
UnlockMapOnly(h, t, mutex) == IF mutex = mu_ THEN h \ {<<t, mutex>>} ELSE h

\* lock.unlock() that leaves the mutex locked.
UnlockNot(h, t, mutex) == h

\* lock.unlock(), and the end of the scope of a lock.
Unlock(h, t, mutex) == h \ {<<t, mutex>>}

\* std::unique_lock and std::lock_guard: the thread has the mutex.
Lock(h, t, mutex) == h \cup {<<t, mutex>>}

\* Nobody has the mutex.
Free(mutex) == \A u \in Writers : <<u, mutex>> \notin held

BucketLocked(aggr_key) ==
    \E u \in Writers : update_pc[u].pc = "fold" /\ update_pc[u].aggr_key = aggr_key

Returned(t, ok) ==
    /\ update_pc' = [update_pc EXCEPT ![t] = NoCall]
    /\ ret' = [op |-> "Update", ok |-> ok]
    /\ synced' = (synced /\ ok)
    /\ fed' = Append(fed, [key |-> update_pc[t].key, row |-> update_pc[t].row,
                           offset |-> update_pc[t].offset, handed |-> TRUE,
                           ok |-> ok])

MovedTo(t, pc, buffer) ==
    /\ update_pc' = [update_pc EXCEPT ![t].pc = pc, ![t].buffer = buffer]
    /\ UNCHANGED <<ret, synced, fed>>

\* The tablet appends the row to the binlog and the thread enters Update:
\* the status gate and the lookup under mu_.
UpdateEnter(t, key, row) ==
    /\ update_pc[t].pc = "idle"
    /\ ~StatusGate(FALSE, status_)
    /\ Free(mu_)
    /\ held' = Unlock(Lock(held, t, mu_), t, mu_)
    /\ LET offset == Len(base_log) + 1
           aggr_key == GetAggregateKey(key, row)
       IN /\ base_log' = Append(base_log,
                 [log_index |-> offset, method_type |-> "kPut",
                  dimensions |-> <<[idx |-> index_pos_, key |-> key]>>,
                  value |-> row])
          /\ aggr_buffer_map_' =
                 IF aggr_key \in DOMAIN aggr_buffer_map_ THEN aggr_buffer_map_
                 ELSE aggr_buffer_map_ @@ (aggr_key :> AggrBuffer(Len(key)))
          /\ update_pc' = [update_pc EXCEPT ![t] =
                 [pc |-> "lock", key |-> key, aggr_key |-> aggr_key, row |-> row,
                  offset |-> offset, buffer |-> AggrBuffer(Len(key))]]
    /\ UNCHANGED <<config, dimensions_, log_reader, status_, aggr_table_, aggr_replicator_, init_pc, ret,
                   crashes, lost, synced, fed>>

\* Lines 161-193 on the bucket b, under the bucket's mutex.
UpdateDecide(t, b) ==
    LET c == update_pc[t]
    IN IF OffsetGuard(c.offset, b)
       THEN /\ aggr_buffer_map_' = [aggr_buffer_map_ EXCEPT ![c.aggr_key] = b]
            /\ held' = Unlock(Lock(held, t, c.aggr_key), t, c.aggr_key)
            /\ Returned(t, FALSE)
       ELSE IF IsLate(c.row.ts, b)
       THEN /\ aggr_buffer_map_' = [aggr_buffer_map_ EXCEPT ![c.aggr_key] = b]
            /\ held' = Unlock(Lock(held, t, c.aggr_key), t, c.aggr_key)
            /\ MovedTo(t, "seek", c.buffer)
       ELSE /\ aggr_buffer_map_' = [aggr_buffer_map_ EXCEPT
                    ![c.aggr_key] = FoldBegin(b, c.row.ts, c.offset)]
            /\ held' = Lock(held, t, c.aggr_key)
            /\ MovedTo(t, "fold", c.buffer)

\* The thread takes the bucket's mutex: lines 134-156 when the bucket is
\* full, lines 134-187 otherwise.
UpdateLocked(t) ==
    /\ update_pc[t].pc = "lock"
    /\ ~BucketLocked(update_pc[t].aggr_key)
    /\ Free(update_pc[t].aggr_key)
    /\ LET c == update_pc[t]
           b1 == InitRange(aggr_buffer_map_[c.aggr_key], c.row.ts)
       IN IF CheckBufferFilled(c.row.ts, b1.ts_end_, b1.aggr_cnt_)
          THEN /\ aggr_buffer_map_' = [aggr_buffer_map_ EXCEPT
                       ![c.aggr_key] = Reopen(b1)]
               /\ held' = Unlock(Lock(held, t, c.aggr_key), t, c.aggr_key)
               /\ MovedTo(t, "flush", b1)
          ELSE UpdateDecide(t, b1)
    /\ UNCHANGED <<config, dimensions_, log_reader, status_, aggr_table_, aggr_replicator_, base_log,
                   init_pc, crashes, lost>>

\* Line 157: the flush of the rollover, outside the bucket's mutex.
UpdateFlush(t) ==
    /\ update_pc[t].pc = "flush"
    /\ SetWorld(FlushAggrBuffer(World, update_pc[t].aggr_key,
                                update_pc[t].buffer, TRUE).w)
    /\ MovedTo(t, "relock", update_pc[t].buffer)
    /\ UNCHANGED <<config, held, log_reader, status_, base_log, init_pc, crashes, lost>>

\* Line 158: the thread takes the bucket's mutex again.
UpdateRelocked(t) ==
    /\ update_pc[t].pc = "relock"
    /\ ~BucketLocked(update_pc[t].aggr_key)
    /\ Free(update_pc[t].aggr_key)
    /\ UpdateDecide(t, aggr_buffer_map_[update_pc[t].aggr_key])
    /\ UNCHANGED <<config, dimensions_, log_reader, status_, aggr_table_, aggr_replicator_, base_log,
                   init_pc, crashes, lost>>

\* Lines 188-194: the kernel, and the release of the bucket's mutex.
UpdateFold(t) ==
    /\ update_pc[t].pc = "fold"
    /\ aggr_buffer_map_' = [aggr_buffer_map_ EXCEPT
           ![update_pc[t].aggr_key] = UpdateAggrVal(update_pc[t].row, @)]
    /\ held' = Unlock(held, t, update_pc[t].aggr_key)
    /\ Returned(t, TRUE)
    /\ UNCHANGED <<config, dimensions_, log_reader, status_, aggr_table_, aggr_replicator_, base_log,
                   init_pc, crashes, lost>>

\* Lines 415-443: the thread reads the row to merge into.
UpdateSeek(t) ==
    /\ update_pc[t].pc = "seek"
    /\ LET c == update_pc[t]
           m == MergedBuffer(aggr_table_, c.key, c.row, c.row.ts, c.offset)
       IN IF m.ok THEN MovedTo(t, "put", m.buffer) ELSE Returned(t, FALSE)
    /\ UNCHANGED <<config, dimensions_, held, log_reader, status_, aggr_buffer_map_, aggr_table_,
                   aggr_replicator_, base_log, init_pc, crashes, lost>>

\* Lines 445-450: the thread writes the merged row.
UpdatePut(t) ==
    /\ update_pc[t].pc = "put"
    /\ LET r == FlushAggrBuffer(World, update_pc[t].key, update_pc[t].buffer, TRUE)
       IN SetWorld(r.w) /\ Returned(t, r.ok)
    /\ UNCHANGED <<config, held, log_reader, status_, base_log, init_pc, crashes, lost>>


(***************************************************************************)
(* Aggregator::FlushAggrBuffer as the steps of a thread, and                *)
(* Aggregator::FlushAll as a call of a thread.  FlushAggrBuffer runs with   *)
(* no mutex: it writes its key into the aggregator's dimensions_ (393),     *)
(* hands dimensions_ to aggr_table_->Put (395), copies dimensions_ into the *)
(* LogEntry (405) and appends the entry (406).  A thread inside it keeps    *)
(* the call it returns to in the field call and the place it was called     *)
(* from in the field site.                                                  *)
(***************************************************************************)
\* Lines 357-393: the row is encoded and the key written into dimensions_.
Flushing(t, site, call, aggr_key, buffer) ==
    LET encoded_row == EncodeRow(aggr_key, buffer)
    IN /\ update_pc' = [update_pc EXCEPT ![t] =
              [pc |-> "aggr_put", site |-> site, call |-> call,
               encoded_row |-> encoded_row]]
       /\ dimensions_' = [dimensions_ EXCEPT ![1].key = encoded_row.key]

\* Update returns ok from the call c.
ReturnedCall(t, c, ok) ==
    /\ update_pc' = [update_pc EXCEPT ![t] = NoCall]
    /\ ret' = [op |-> "Update", ok |-> ok]
    /\ synced' = (synced /\ ok)
    /\ fed' = Append(fed, [key |-> c.key, row |-> c.row, offset |-> c.offset,
                           handed |-> TRUE, ok |-> ok])

\* FlushAggrBuffer returns ok to the place it was called from: the rollover
\* ignores the result (157), the late-arrival merge returns it (444-450),
\* FlushAll goes on with the next bucket or returns false (210-212).
FlushReturned(t, ok) ==
    LET c == update_pc[t].call
    IN IF update_pc[t].site = "rollover"
       THEN /\ update_pc' = [update_pc EXCEPT ![t] = [c EXCEPT !.pc = "relock"]]
            /\ UNCHANGED <<ret, synced, fed>>
       ELSE IF update_pc[t].site = "merge"
       THEN ReturnedCall(t, c, ok)
       ELSE IF ok
       THEN /\ update_pc' = [update_pc EXCEPT ![t] = [c EXCEPT !.i = @ + 1]]
            /\ UNCHANGED <<ret, synced, fed>>
       ELSE /\ update_pc' = [update_pc EXCEPT ![t] = NoCall]
            /\ ret' = [op |-> "FlushAll", ok |-> FALSE]
            /\ UNCHANGED <<synced, fed>>

\* Line 157: the rollover calls FlushAggrBuffer.
UpdateFlushCall(t) ==
    /\ update_pc[t].pc = "flush"
    /\ Flushing(t, "rollover", update_pc[t], update_pc[t].aggr_key,
                update_pc[t].buffer)
    /\ UNCHANGED <<config, held, log_reader, status_, aggr_buffer_map_,
                   aggr_table_, aggr_replicator_, base_log, init_pc, ret,
                   crashes, lost, synced, fed>>

\* Line 444: the late-arrival merge calls FlushAggrBuffer.
UpdatePutCall(t) ==
    /\ update_pc[t].pc = "put"
    /\ Flushing(t, "merge", update_pc[t], update_pc[t].key, update_pc[t].buffer)
    /\ UNCHANGED <<config, held, log_reader, status_, aggr_buffer_map_,
                   aggr_table_, aggr_replicator_, base_log, init_pc, ret,
                   crashes, lost, synced, fed>>

\* Lines 394-399: aggr_table_->Put(time, encoded_row, dimensions_).
FlushTablePut(t, put_ok) ==
    /\ update_pc[t].pc = "aggr_put"
    /\ IF put_ok
       THEN /\ aggr_table_' = Append(aggr_table_,
                    [pk |-> dimensions_[1].key,
                     value |-> update_pc[t].encoded_row])
            /\ update_pc' = [update_pc EXCEPT ![t].pc = "append"]
            /\ UNCHANGED <<ret, synced, fed>>
       ELSE /\ FlushReturned(t, FALSE)
            /\ UNCHANGED aggr_table_
    /\ UNCHANGED <<config, dimensions_, held, log_reader, status_,
                   aggr_buffer_map_, aggr_replicator_, base_log, init_pc,
                   crashes, lost>>

\* Lines 400-410: the LogEntry is built and appended to the replicator.
FlushAppendEntry(t) ==
    /\ update_pc[t].pc = "append"
    /\ aggr_replicator_' = Append(aggr_replicator_,
           [pk |-> update_pc[t].encoded_row.key,
            value |-> update_pc[t].encoded_row,
            dimensions |-> dimensions_])
    /\ FlushReturned(t, TRUE)
    /\ UNCHANGED <<config, dimensions_, held, log_reader, status_,
                   aggr_buffer_map_, aggr_table_, base_log, init_pc, crashes,
                   lost>>

\* Line 199: a thread calls FlushAll and takes mu_.
FlushAllLock(t) ==
    /\ update_pc[t].pc = "idle"
    /\ Free(mu_)
    /\ held' = Lock(held, t, mu_)
    /\ update_pc' = [update_pc EXCEPT ![t] = [pc |-> "snapshot"]]
    /\ UNCHANGED <<config, dimensions_, log_reader, status_, aggr_buffer_map_,
                   aggr_table_, aggr_replicator_, base_log, init_pc, ret,
                   crashes, lost, synced, fed>>

\* Lines 200-208: the buckets that have rows are copied and mu_ is released.
FlushAllSnapshot(t, order) ==
    /\ update_pc[t].pc = "snapshot"
    /\ order \in Perms(ToFlush(aggr_buffer_map_))
    /\ held' = Unlock(held, t, mu_)
    /\ update_pc' = [update_pc EXCEPT ![t] =
           [pc |-> "flushall",
            flushed_buffer_map |-> [k \in ToFlush(aggr_buffer_map_) |->
                                       aggr_buffer_map_[k]],
            order |-> order, i |-> 1]]
    /\ UNCHANGED <<config, dimensions_, log_reader, status_, aggr_buffer_map_,
                   aggr_table_, aggr_replicator_, base_log, init_pc, ret,
                   crashes, lost, synced, fed>>

\* Lines 209-214: the next copy is flushed, or FlushAll returns true.
FlushAllNext(t) ==
    /\ update_pc[t].pc = "flushall"
    /\ LET c == update_pc[t]
       IN IF c.i > Len(c.order)
          THEN /\ update_pc' = [update_pc EXCEPT ![t] = NoCall]
               /\ ret' = [op |-> "FlushAll", ok |-> TRUE]
               /\ UNCHANGED dimensions_
          ELSE /\ Flushing(t, "flushall", c, c.order[c.i],
                           c.flushed_buffer_map[c.order[c.i]])
               /\ UNCHANGED ret
    /\ UNCHANGED <<config, held, log_reader, status_, aggr_buffer_map_,
                   aggr_table_, aggr_replicator_, base_log, init_pc, crashes,
                   lost, synced, fed>>

\* A step of thread t inside a call.
ThreadStep(t) ==
    \/ UpdateLocked(t)
    \/ UpdateFlushCall(t)
    \/ UpdateRelocked(t)
    \/ UpdateFold(t)
    \/ UpdateSeek(t)
    \/ UpdatePutCall(t)
    \/ FlushTablePut(t, TRUE)
    \/ FlushAppendEntry(t)
    \/ \E order \in Perms(ToFlush(aggr_buffer_map_)) : FlushAllSnapshot(t, order)
    \/ FlushAllNext(t)

\* Two threads may call Init; one primary key; no restart.
Next ==
    \/ /\ Len(fed) < MaxLog
       /\ \E ts \in {0, MaxTs} : Put(<<"a">>, BaseRow(ts, <<1>>, <<"x">>))
    \/ \E order \in Perms(ToFlush(aggr_buffer_map_)) : FlushAll(order)
    \/ \E c \in Callers, has_replicator \in BOOLEAN : InitCheck(c, has_replicator)
    \/ \E c \in Callers : InitStore(c)
    \/ \E c \in Callers : InitRecover(c)

Spec == Init /\ [][Next]_vars

\* One thread calls Init and the process may restart.  The tablet admits
\* writes and flushes only once Init has returned true.
NextRestart(keys) ==
    \/ /\ status_ = "kInited"
       /\ Len(fed) < MaxLog
       /\ \E key \in keys, ts \in Timestamps, fv \in FilterValues :
              Put(key, BaseRow(ts, <<1>>, fv))
    \/ /\ status_ = "kInited"
       /\ Len(fed) < MaxLog
       /\ \E method \in {"kPut", "kDelete"} :
              LogOnly(method, IF method = "kPut" THEN index_pos_ + 1 ELSE index_pos_)
    \/ /\ status_ = "kInited"
       /\ \E order \in Perms(ToFlush(aggr_buffer_map_)) : FlushAll(order)
    \/ \E has_replicator \in BOOLEAN : InitCheck(1, has_replicator)
    \/ InitStore(1)
    \/ InitRecover(1)
    \/ \E n \in 0..Len(base_log) : Crash(n)

\* SUM over two primary keys.
NextRecovery == NextRestart(PKs)

InitRecovery == Constructed({<<"kRowsNum", 2>>, <<"kRowsRange", 1>>}, {"kSum"})

SpecRecovery == InitRecovery /\ [][NextRecovery]_vars

\* COUNT_WHERE over one primary key and two filter values.
NextRecoveryWhere == NextRestart({<<"a">>})

InitRecoveryWhere ==
    Constructed({<<"kRowsNum", 2>>, <<"kRowsRange", 1>>}, {"kCountWhere"})

SpecRecoveryWhere == InitRecoveryWhere /\ [][NextRecoveryWhere]_vars

(***************************************************************************)
(* The window specifications: one primary key, one thread, no restart; the *)
(* aggregator is initialised over an empty aggregate table and an empty    *)
(* binlog and is then fed by the writer.                                   *)
(***************************************************************************)
LastTs == IF fed = <<>> THEN 0 ELSE fed[Len(fed)].row.ts

\* A time window fed the rows i of timestamp i * W / 2, in integers.
NextSpaced ==
    \/ /\ status_ = "kInited"
       /\ Len(fed) < MaxRows
       /\ \E v \in {<<1>>, <<2>>} :
              Put(<<"a">>, BaseRow((Len(fed) * window_size_) \div 2, v, <<"x">>))
    \/ \E has_replicator \in BOOLEAN : InitCheck(1, has_replicator)
    \/ InitStore(1)
    \/ InitRecover(1)

InitSpaced ==
    Constructed({<<"kRowsRange", 1>>, <<"kRowsRange", 2>>, <<"kRowsRange", 3>>},
                {"kSum", "kCount"})

SpecSpaced == InitSpaced /\ [][NextSpaced]_vars

\* A row-count window fed rows of non-decreasing timestamps.
NextRows ==
    \/ /\ status_ = "kInited"
       /\ Len(fed) < MaxRows
       /\ \E ts \in {LastTs, LastTs + 1} :
              Put(<<"a">>, BaseRow(ts, <<1>>, <<"x">>))
    \/ \E has_replicator \in BOOLEAN : InitCheck(1, has_replicator)
    \/ InitStore(1)
    \/ InitRecover(1)

InitRows ==
    Constructed({<<"kRowsNum", 1>>, <<"kRowsNum", 2>>, <<"kRowsNum", 3>>},
                {"kSum"})

SpecRows == InitRows /\ [][NextRows]_vars

\* SUM over an integer column fed rows in any order of timestamps.
NextSum ==
    \/ /\ status_ = "kInited"
       /\ Len(fed) < MaxSumRows
       /\ \E ts \in Timestamps, v \in {NULLV, <<1>>, <<-2>>} :
              Put(<<"a">>, BaseRow(ts, v, <<"x">>))
    \/ \E has_replicator \in BOOLEAN : InitCheck(1, has_replicator)
    \/ InitStore(1)
    \/ InitRecover(1)

InitSum == Constructed({<<"kRowsNum", 2>>, <<"kRowsRange", 2>>}, {"kSum"})

SpecSum == InitSum /\ [][NextSum]_vars

\* COUNT and COUNT_WHERE over one primary key, fed rows of two filter values
\* in any order of timestamps.
NextWhere ==
    \/ /\ status_ = "kInited"
       /\ Len(fed) < MaxSumRows
       /\ \E ts \in Timestamps, fv \in FilterValues :
              Put(<<"a">>, BaseRow(ts, <<1>>, fv))
    \/ \E has_replicator \in BOOLEAN : InitCheck(1, has_replicator)
    \/ InitStore(1)
    \/ InitRecover(1)

InitWhere ==
    Constructed({<<"kRowsNum", 2>>, <<"kRowsRange", 2>>}, {"kCount", "kCountWhere"})

SpecWhere == InitWhere /\ [][NextWhere]_vars

\* MIN and MAX over one primary key, fed null and non-null values in any
\* order of timestamps, with FlushAll.
NextMinMax ==
    \/ /\ status_ = "kInited"
       /\ Len(fed) < MaxLog
       /\ \E ts \in {0, MaxTs}, v \in {NULLV, <<1>>, <<-2>>} :
              Put(<<"a">>, BaseRow(ts, v, <<"x">>))
    \/ /\ status_ = "kInited"
       /\ \E order \in Perms(ToFlush(aggr_buffer_map_)) : FlushAll(order)
    \/ \E has_replicator \in BOOLEAN : InitCheck(1, has_replicator)
    \/ InitStore(1)
    \/ InitRecover(1)

InitMinMax ==
    Constructed({<<"kRowsNum", 2>>, <<"kRowsRange", 2>>}, {"kMin", "kMax"})

SpecMinMax == InitMinMax /\ [][NextMinMax]_vars

\* Every kernel over one primary key, COUNT and COUNT_WHERE also over "*",
\* fed null and non-null values, with restarts.
NextKernels ==
    \/ /\ status_ = "kInited"
       /\ Len(fed) < MaxLog
       /\ \E ts \in {0, MaxTs}, v \in {NULLV, <<1>>} :
              Put(<<"a">>, BaseRow(ts, v, <<"x">>))
    \/ InitCheck(1, TRUE)
    \/ InitStore(1)
    \/ InitRecover(1)
    \/ \E n \in 0..Len(base_log) : Crash(n)

InitKernels ==
    ConstructedOver({<<"kRowsNum", 2>>, <<"kRowsRange", 2>>},
                    {"kSum", "kMin", "kMax", "kAvg", "kCount", "kCountWhere"},
                    {"col3", "*"})

SpecKernels == InitKernels /\ [][NextKernels]_vars

\* SUM over one primary key with FlushAll and restarts that may lose the
\* tail of the binlog, so that offsets are handed out again.
NextOffsets ==
    \/ /\ status_ = "kInited"
       /\ Len(fed) < MaxLog
       /\ \E ts \in {0, MaxTs} : Put(<<"a">>, BaseRow(ts, <<1>>, <<"x">>))
    \/ /\ status_ = "kInited"
       /\ \E order \in Perms(ToFlush(aggr_buffer_map_)) : FlushAll(order)
    \/ InitCheck(1, TRUE)
    \/ InitStore(1)
    \/ InitRecover(1)
    \/ \E n \in 0..Len(base_log) : Crash(n)

InitOffsets == Constructed({<<"kRowsNum", 2>>, <<"kRowsRange", 2>>}, {"kSum"})

SpecOffsets == InitOffsets /\ [][NextOffsets]_vars

\* SUM over one primary key, two threads in Update.
NextThreads ==
    \/ /\ Len(base_log) < MaxLog
       /\ \E t \in Writers, ts \in {0, MaxTs} :
              UpdateEnter(t, <<"a">>, BaseRow(ts, <<1>>, <<"x">>))
    \/ \E t \in Writers : UpdateLocked(t)
    \/ \E t \in Writers : UpdateFlush(t)
    \/ \E t \in Writers : UpdateRelocked(t)
    \/ \E t \in Writers : UpdateFold(t)
    \/ \E t \in Writers : UpdateSeek(t)
    \/ \E t \in Writers : UpdatePut(t)
    \/ InitCheck(1, TRUE)
    \/ InitStore(1)
    \/ InitRecover(1)

InitThreads == Constructed({<<"kRowsNum", 2>>, <<"kRowsRange", 2>>}, {"kSum"})

SpecThreads == InitThreads /\ [][NextThreads]_vars

\* Two threads in Update and a thread that calls FlushAll.
NextRace ==
    \/ NextThreads
    \/ /\ status_ = "kInited"
       /\ \E order \in Perms(ToFlush(aggr_buffer_map_)) : FlushAll(order)

SpecRace == InitThreads /\ [][NextRace]_vars

\* SUM over one primary key; the aggregate table's Put can fail in any
\* Update.
NextPutFails ==
    \/ /\ status_ = "kInited"
       /\ Len(fed) < MaxLog
       /\ \E ts \in Timestamps : Put(<<"a">>, BaseRow(ts, <<1>>, <<"x">>))
    \/ /\ status_ = "kInited"
       /\ Len(fed) < MaxLog
       /\ \E ts \in Timestamps : PutFailing(<<"a">>, BaseRow(ts, <<1>>, <<"x">>))
    \/ InitCheck(1, TRUE)
    \/ InitStore(1)
    \/ InitRecover(1)

InitPutFails == Constructed({<<"kRowsNum", 2>>, <<"kRowsRange", 1>>}, {"kSum"})

SpecPutFails == InitPutFails /\ [][NextPutFails]_vars

\* SUM over two primary keys with a time window: two threads, each in
\* Update or in FlushAll.
NextLocks ==
    \/ /\ Len(base_log) < MaxCalls
       /\ \E t \in Writers, key \in PKs, ts \in {0, MaxTs} :
              UpdateEnter(t, key, BaseRow(ts, <<1>>, <<"x">>))
    \/ /\ status_ = "kInited"
       /\ Len(aggr_table_) < MaxFlushed
       /\ \E t \in Writers : FlushAllLock(t)
    \/ \E t \in Writers : ThreadStep(t)
    \/ InitCheck(1, TRUE)
    \/ InitStore(1)
    \/ InitRecover(1)

InitLocks == Constructed({<<"kRowsRange", 2>>}, {"kSum"})

SpecLocks == InitLocks /\ [][NextLocks]_vars

\* Every thread inside a call gets to take its next step.
FairLocks == SpecLocks /\ \A t \in Writers : WF_vars(ThreadStep(t))

\* As NextLocks, with one of the two threads calling FlushAll: both threads
\* call Update, on the same key or on different keys.
NextCalls ==
    \/ /\ Len(base_log) < MaxCalls
       /\ \E t \in Writers, key \in PKs, ts \in {0, MaxTs} :
              UpdateEnter(t, key, BaseRow(ts, <<1>>, <<"x">>))
    \/ /\ status_ = "kInited"
       /\ Len(aggr_table_) < MaxFlushed
       /\ FlushAllLock(2)
    \/ \E t \in Writers : ThreadStep(t)
    \/ InitCheck(1, TRUE)
    \/ InitStore(1)
    \/ InitRecover(1)

SpecCalls == InitLocks /\ [][NextCalls]_vars

\* Every thread inside a call gets to take its next step.
FairCalls == SpecCalls /\ \A t \in Writers : WF_vars(ThreadStep(t))

\* SUM over one primary key; the process restarts and Init replays the
\* binlog record by record, with reads and parses that may fail.
NextReplay ==
    \/ /\ status_ = "kInited"
       /\ Len(fed) < MaxLog
       /\ \E ts \in Timestamps : Put(<<"a">>, BaseRow(ts, <<1>>, <<"x">>))
    \/ /\ status_ = "kInited"
       /\ Len(fed) < MaxLog
       /\ LogOnly("kDelete", index_pos_)
    \/ InitCheck(1, TRUE)
    \/ InitStep(1)
    \/ \E n \in 0..Len(base_log) : Crash(n)

InitReplay == Constructed({<<"kRowsNum", 2>>, <<"kRowsRange", 1>>}, {"kSum"})

SpecReplay == InitReplay /\ [][NextReplay]_vars

\* The thread that is in Init keeps running.
FairReplay == SpecReplay /\ WF_vars(InitStep(1))

\* CreateAggregator called with every string of up to MaxBucketSize
\* characters; aggr_func is "sum".
NextCreate == CreateAggregator

InitCreate ==
    /\ \E str \in StringsUpTo(MaxBucketSize) :
           create_call = [pc |-> "called", bucket_size |-> str]
    /\ window_type_ = "none"
    /\ window_size_ = 0
    /\ aggr_type_ = "kSum"
    /\ count_all = FALSE
    /\ status_ = "kUnInit"
    /\ aggr_buffer_map_ = <<>>
    /\ aggr_table_ = <<>>
    /\ aggr_replicator_ = <<>>
    /\ base_log = <<>>
    /\ init_pc = [c \in Callers |-> "idle"]
    /\ update_pc = [t \in Writers |-> NoCall]
    /\ dimensions_ = NoDimensions
    /\ held = {}
    /\ log_reader = NoReader
    /\ ret = [op |-> "none", ok |-> TRUE]
    /\ crashes = 0
    /\ lost = FALSE
    /\ synced = TRUE
    /\ fed = <<>>

SpecCreate == InitCreate /\ [][NextCreate]_vars

(***************************************************************************)
(* Properties.                                                             *)
(***************************************************************************)
\* The last call the writer made of Update.
LastFed == fed[Len(fed)]

StatusMoves ==
    [][status_' # status_
         => <<status_, status_'>> \in {<<"kUnInit", "kRecovering">>,
                                      <<"kRecovering", "kInited">>,
                                      <<"kRecovering", "kUnInit">>}]_vars

(***************************************************************************)
(* Recovery.                                                               *)
(***************************************************************************)
RECURSIVE SetSum(_, _)
SetSum(f, S) ==
    IF S = {} THEN 0
    ELSE LET x == CHOOSE y \in S : TRUE IN f[x] + SetSum(f, S \ {x})

\* The step of Init that seeds the buckets and replays the base binlog, made
\* by an aggregator that has no bucket yet.
InitReplays ==
    /\ init_pc[1] = "recovering" /\ init_pc'[1] = "idle"
    /\ ret'.op = "Recover"
    /\ aggr_buffer_map_ = <<>>

\* The non-delete records of the base binlog that carry the followed index
\* with primary key key.
Followed(key) ==
    {i \in 1..Len(base_log) :
        /\ base_log[i].method_type # "kDelete"
        /\ FollowedDims(base_log[i]) # {}
        /\ base_log[i].dimensions[SetMin(FollowedDims(base_log[i]))].key = key}

LiveOf(key) ==
    {k \in DOMAIN aggr_buffer_map_ :
        SubSeq(k, 1, Min2(aggr_buffer_map_[k].key_end_, Len(k))) = key}

\* The latest row of every flushed bucket of key: a bucket is a filter value
\* and a ts_begin.
LatestRows(key) ==
    {i \in RowIdx(aggr_table_, key) :
        \A j \in RowIdx(aggr_table_, key) :
            (/\ aggr_table_[j].value.filter_key = aggr_table_[i].value.filter_key
             /\ aggr_table_[j].value.ts_begin = aggr_table_[i].value.ts_begin)
            => j <= i}

Counted(key) ==
    SetSum([k \in LiveOf(key) |-> aggr_buffer_map_[k].aggr_cnt_], LiveOf(key))
    + SetSum([i \in LatestRows(key) |-> aggr_table_[i].value.aggr_cnt],
             LatestRows(key))

\* C3: after a crash that loses nothing of the base binlog and a successful
\* Init of the new aggregator, for each key the aggr_cnt of the live buckets
\* plus the aggr_cnt of the latest row of every flushed bucket is at least
\* the number of followed non-delete records of the key.
RecoveryLosesNothing ==
    (ret = [op |-> "Recover", ok |-> TRUE] /\ crashes > 0 /\ ~lost /\ synced)
    => \A key \in PKs : Counted(key) >= Cardinality(Followed(key))

FlushedOffs == UNION {aggr_table_[i].value.offs : i \in 1..Len(aggr_table_)}

LiveOffs == UNION {aggr_buffer_map_[k].offs : k \in DOMAIN aggr_buffer_map_}

\* C4: Init folds no record whose contribution is already contained in a row
\* of the aggregate table, neither into a live bucket nor into a row it
\* writes.
ReplayFoldsOnce ==
    [][InitReplays
         => LET written == UNION {aggr_table_'[i].value.offs :
                                    i \in Len(aggr_table_) + 1..Len(aggr_table_')}
            IN (LiveOffs' \cup written) \cap FlushedOffs = {}]_vars

\* C5: Init of a fresh aggregator over an aggregate table and a base binlog
\* that a first aggregator has processed completely writes no row.
RecoveryWritesNothing ==
    [][(InitReplays /\ synced /\ ~lost) => aggr_table_' = aggr_table_]_vars

\* The highest offset of the base binlog Init's replay reads.
HighestLogOffset == SetMax({0} \cup {base_log[i].log_index : i \in 1..Len(base_log)})

\* C6: Init returns false and leaves kUnInit when the highest offset of the
\* replayed base binlog is below the largest binlog_offset of the aggregate
\* table, and returns true with kInited otherwise.
BehindDetected ==
    [][InitReplays
         => IF HighestLogOffset < aggr_latest_offset(aggr_table_)
            THEN ~ret'.ok /\ status_' = "kUnInit"
            ELSE ret'.ok /\ status_' = "kInited"]_vars

(***************************************************************************)
(* Windows.                                                                *)
(***************************************************************************)
AllFedOk == \A i \in 1..Len(fed) : fed[i].ok

LiveBucket == aggr_buffer_map_[<<"a">>]

\* C7 as stated: the rows i = 0..N of timestamp i * W / 2, N >= 1, leave
\* ceil(N / 2) rows in the aggregate table.
SpacedRowsCeil ==
    Len(fed) >= 2 => Len(aggr_table_) = Len(fed) \div 2

\* C7: the rows i = 0..N of timestamp i * W / 2 (in integers, N >= 1) leave
\* floor(N / 2) rows in the aggregate table and one live bucket, and each
\* flushed bucket holds two of the rows.
SpacedRowsFloor ==
    Len(fed) >= 2 =>
        /\ AllFedOk
        /\ Len(aggr_table_) = (Len(fed) - 1) \div 2
        /\ DOMAIN aggr_buffer_map_ = {<<"a">>}
        /\ LiveBucket.aggr_cnt_ = Len(fed) - 2 * Len(aggr_table_)
        /\ \A i \in 1..Len(aggr_table_) :
               /\ aggr_table_[i].value.aggr_cnt = 2
               /\ aggr_table_[i].value.offs = {2 * i - 1, 2 * i}

\* Four rows (N = 3) have been fed: one flushed bucket and a live bucket of
\* two rows.
SpacedRowsSeen ==
    /\ Len(fed) = 4
    /\ Len(aggr_table_) = 1
    /\ LiveBucket.aggr_cnt_ = 2

StrictlyIncreasing ==
    \A i \in 1..Len(fed) - 1 : fed[i].row.ts < fed[i + 1].row.ts

\* C8 as stated: N in-order successful Updates into a row-count window of
\* size W have flushed floor(N / W) rows.
RowCountFlushesFloor ==
    (AllFedOk /\ StrictlyIncreasing)
    => Len(aggr_table_) = Len(fed) \div window_size_

FlushedBuckets == {aggr_table_[i].value.ts_begin : i \in 1..Len(aggr_table_)}

RolloversOf(n) == IF n = 0 THEN 0 ELSE (n - 1) \div window_size_

\* C8: N successful Updates of strictly increasing timestamps into a
\* row-count window of size W have flushed floor((N - 1) / W) rows (none for
\* N = 0); with non-decreasing timestamps that number bounds the flushed
\* buckets.
RowCountFlushes ==
    AllFedOk =>
        /\ StrictlyIncreasing => Len(aggr_table_) = RolloversOf(Len(fed))
        /\ Cardinality(FlushedBuckets) <= RolloversOf(Len(fed))

\* Exactly W rows of strictly increasing timestamps have been fed to a
\* window of W >= 2 rows, and nothing is flushed yet.
RowCountFlushesSeen ==
    /\ window_size_ >= 2
    /\ Len(fed) = window_size_
    /\ AllFedOk /\ StrictlyIncreasing
    /\ aggr_table_ = <<>>
    /\ LiveBucket.aggr_cnt_ = window_size_

\* C9: rows of non-decreasing timestamps fed to a row-count window of size
\* W: no row of the aggregate table has aggr_cnt > W, and the first row of
\* each flushed bucket, the one the rollover writes, has aggr_cnt = W.
RowCountExact ==
    AllFedOk =>
        \A i \in 1..Len(aggr_table_) :
            /\ aggr_table_[i].value.aggr_cnt <= window_size_
            /\ (\A j \in 1..i - 1 : aggr_table_[j].value.ts_begin
                                        # aggr_table_[i].value.ts_begin)
               => aggr_table_[i].value.aggr_cnt = window_size_

RowValue(v) == IF IsNULL(v) THEN 0 ELSE v[1]

LiveSum ==
    SetSum([k \in DOMAIN aggr_buffer_map_ |-> aggr_buffer_map_[k].aggr_val_],
           DOMAIN aggr_buffer_map_)

FlushedSum ==
    SetSum([i \in LatestRows(<<"a">>) |->
               DecodeInt64(aggr_table_[i].value.aggr_val.data)],
           LatestRows(<<"a">>))

\* C10: after successful live Updates of a SUM aggregator, in order or late,
\* the aggr_val of the live bucket plus the aggr_val of the latest row of
\* each flushed bucket is the sum of the values of the rows.
SumAcrossBuckets ==
    AllFedOk =>
        LiveSum + FlushedSum = SumSeq([i \in 1..Len(fed) |-> RowValue(fed[i].row.val)])

\* A late row has been merged into a flushed row: the table holds two rows
\* of one bucket, and the values do not cancel.
SumAcrossBucketsSeen ==
    /\ AllFedOk
    /\ Len(fed) = MaxSumRows
    /\ \E i, j \in 1..Len(aggr_table_) :
           i < j /\ aggr_table_[i].value.ts_begin = aggr_table_[j].value.ts_begin
    /\ LiveSum # 0 /\ FlushedSum # 0
    /\ LiveSum + FlushedSum < 0

(***************************************************************************)
(* Late rows.                                                              *)
(***************************************************************************)
\* The latest rows of the flushed buckets of key a that cover timestamp ts.
Covering(ts) ==
    {i \in LatestRows(<<"a">>) :
        /\ aggr_table_[i].value.ts_begin <= ts
        /\ ts <= aggr_table_[i].value.ts_end}

\* C11: in a time window of a SUM aggregator, a live Update of a row that is
\* late (its timestamp is below the live bucket's ts_begin) and lies inside a
\* flushed bucket returns true and adds one row to the aggregate table: the
\* bucket's ts_begin and ts_end, its count plus 1, its sum plus the row's
\* value, and the row's offset.
LateRowMerged ==
    [][(/\ fed' # fed
        /\ window_type_ = "kRowsRange"
        /\ status_ = "kInited"
        /\ <<"a">> \in DOMAIN aggr_buffer_map_
        /\ LastFed'.row.ts < LiveBucket.ts_begin_
        /\ Covering(LastFed'.row.ts) # {})
       => /\ ret' = [op |-> "Update", ok |-> TRUE]
          /\ Len(aggr_table_') = Len(aggr_table_) + 1
          /\ SubSeq(aggr_table_', 1, Len(aggr_table_)) = aggr_table_
          /\ aggr_buffer_map_' = aggr_buffer_map_
          /\ \A i \in Covering(LastFed'.row.ts) :
                 LET old == aggr_table_[i].value
                     new == aggr_table_'[Len(aggr_table_')].value
                 IN /\ new.key = <<"a">>
                    /\ new.ts_begin = old.ts_begin
                    /\ new.ts_end = old.ts_end
                    /\ new.aggr_cnt = old.aggr_cnt + 1
                    /\ DecodeInt64(new.aggr_val.data)
                         = DecodeInt64(old.aggr_val.data) + RowValue(LastFed'.row.val)
                    /\ new.binlog_offset = LastFed'.offset]_vars

\* A late row of value -2 has just been merged into a flushed bucket of a
\* time window that held one row of value 1.
LateRowMergedSeen ==
    /\ window_type_ = "kRowsRange"
    /\ ret = [op |-> "Update", ok |-> TRUE]
    /\ Len(aggr_table_) = 2
    /\ aggr_table_[1].value.ts_begin = aggr_table_[2].value.ts_begin
    /\ aggr_table_[1].value.aggr_cnt = 1
    /\ aggr_table_[2].value.aggr_cnt = 2
    /\ DecodeInt64(aggr_table_[1].value.aggr_val.data) = 1
    /\ DecodeInt64(aggr_table_[2].value.aggr_val.data) = -1
    /\ aggr_table_[2].value.binlog_offset = LastFed.offset
    /\ LastFed.row.ts < LiveBucket.ts_begin_

(***************************************************************************)
(* COUNT_WHERE.                                                            *)
(***************************************************************************)
LiveCount(keys) ==
    SetSum([k \in keys |-> aggr_buffer_map_[k].non_null_cnt_], keys)

FlushedCount(rows) ==
    SetSum([i \in rows |-> DecodeInt64(aggr_table_[i].value.aggr_val.data)], rows)

\* The live buckets and the latest flushed rows that carry a filter value.
FilterBuckets ==
    {k \in DOMAIN aggr_buffer_map_ : \E f \in Filters : k = <<"a">> \o f}

FilterRows ==
    {i \in LatestRows(<<"a">>) : ~aggr_table_[i].value.filter_key.null}

\* The count an unconditional COUNT holds over the rows fed.
CountOfFed == Cardinality({i \in 1..Len(fed) : ~IsNULL(fed[i].row.val)})

\* C12: the counts of the buckets of the two filter values of a COUNT_WHERE
\* aggregator, live and flushed, add up to the unconditional COUNT of the
\* rows; the total is taken over the buckets that carry a filter value, or
\* over all buckets.
WhereCountsAddUp ==
    (aggr_type_ = "kCountWhere" /\ AllFedOk)
    => \/ LiveCount(FilterBuckets) + FlushedCount(FilterRows) = CountOfFed
       \/ LiveCount(DOMAIN aggr_buffer_map_) + FlushedCount(LatestRows(<<"a">>))
            = CountOfFed

\* The offsets of the rows of history with filter value f.
OffsetsOf(history, f) ==
    {history[i].offset : i \in {j \in 1..Len(history) : history[j].row.fv = f}}

\* C13: a live Update of a COUNT_WHERE aggregator whose row has filter value
\* f leaves the live buckets of the other filter values as they were, and
\* every row it writes, by a rollover or by a late merge, carries f in field
\* 6 and holds rows of f only.
WhereStreamsApart ==
    [][(fed' # fed /\ aggr_type_ = "kCountWhere" /\ status_ = "kInited")
       => LET f == LastFed'.row.fv
          IN /\ \A k \in DOMAIN aggr_buffer_map_ :
                    k # <<"a">> \o f => aggr_buffer_map_'[k] = aggr_buffer_map_[k]
             /\ \A i \in Len(aggr_table_) + 1..Len(aggr_table_') :
                    /\ aggr_table_'[i].value.filter_key = [null |-> FALSE, data |-> f]
                    /\ aggr_table_'[i].value.offs \subseteq OffsetsOf(fed', f)]_vars

(***************************************************************************)
(* MIN and MAX.                                                            *)
(***************************************************************************)
\* Only null values were folded into the bucket whose offsets are offs.
OnlyNulls(offs) ==
    \A i \in 1..Len(fed) : fed[i].offset \in offs => IsNULL(fed[i].row.val)

\* C14: for MIN and MAX every row of the aggregate table whose bucket was
\* folded null values only has field 4 NULL.
NullBucketsPublishNull ==
    aggr_type_ \in {"kMin", "kMax"} =>
        \A i \in 1..Len(aggr_table_) :
            OnlyNulls(aggr_table_[i].value.offs) => aggr_table_[i].value.aggr_val.null

\* A MAX bucket of two null rows has been written three times: by FlushAll,
\* by the rollover, and by the merge of a late null row.
NullBucketsPublishNullSeen ==
    /\ aggr_type_ = "kMax"
    /\ Len(aggr_table_) = 3
    /\ Len(fed) = 3
    /\ \A i \in 1..3 : IsNULL(fed[i].row.val)
    /\ aggr_table_[1].value.aggr_cnt = 2
    /\ aggr_table_[2].value.aggr_cnt = 2
    /\ aggr_table_[3].value.aggr_cnt = 3
    /\ \A i \in 1..3 : aggr_table_[i].value.aggr_val.null

(***************************************************************************)
(* Offsets of the rows of the aggregate table.                             *)
(***************************************************************************)
\* The rows of the aggregate table written for primary key pk, in the order
\* they were written.
RowsWrittenFor(pk) ==
    SelectSeq(aggr_table_, LAMBDA r : r.value.key = pk)

\* C15: of two rows written one after the other for the same primary key,
\* the later carries a binlog_offset at least one above the earlier.
RowOffsetsIncrease ==
    \A pk \in PKs :
        LET rows == RowsWrittenFor(pk)
        IN \A i \in 1..Len(rows) - 1 :
               rows[i + 1].value.binlog_offset >= rows[i].value.binlog_offset + 1

(***************************************************************************)
(* Rows of one bucket in the aggregate table.                              *)
(***************************************************************************)
\* The bucket key of a row: its key followed by its filter suffix.
BucketKeyOf(r) == r.value.key \o r.value.filter_key.data

\* C16, as the specification states it: the aggregate table holds at most
\* one row for a given (bucket_key, ts_begin).
OneRowPerBucket ==
    \A i, j \in 1..Len(aggr_table_) :
        (/\ BucketKeyOf(aggr_table_[i]) = BucketKeyOf(aggr_table_[j])
         /\ aggr_table_[i].value.ts_begin = aggr_table_[j].value.ts_begin)
        => i = j

\* C16: the aggregate table can hold several rows for a given
\* (bucket_key, ts_begin): every step leaves the rows written so far in
\* place, and a FlushAll adds one row for each bucket that has rows folded,
\* also when the table already holds rows of these buckets.
FlushesKeepRows ==
    [][/\ Len(aggr_table_') >= Len(aggr_table_)
       /\ SubSeq(aggr_table_', 1, Len(aggr_table_)) = aggr_table_
       /\ (ret'.op = "FlushAll" /\ aggr_table_' # aggr_table_)
              => Len(aggr_table_') =
                     Len(aggr_table_) + Cardinality(ToFlush(aggr_buffer_map_))]_vars

\* A bucket has been written by a rollover and then again, with the same
\* key and ts_begin, by the merge of a late row; both rows are in the table.
FlushesKeepRowsSeen ==
    /\ Len(aggr_table_) >= 2
    /\ \E i, j \in 1..Len(aggr_table_) :
           /\ i < j
           /\ BucketKeyOf(aggr_table_[i]) = BucketKeyOf(aggr_table_[j])
           /\ aggr_table_[i].value.ts_begin = aggr_table_[j].value.ts_begin
           /\ aggr_table_[j].value.aggr_cnt = aggr_table_[i].value.aggr_cnt + 1
    /\ ret.op = "Update"

(***************************************************************************)
(* Invariants of the live buckets.                                         *)
(***************************************************************************)
\* C17, as the specification states it: every live bucket whose ts_begin is
\* not -1 satisfies ts_begin <= ts_end.
RangeOrdered ==
    \A k \in DOMAIN aggr_buffer_map_ :
        aggr_buffer_map_[k].ts_begin_ # -1
        => aggr_buffer_map_[k].ts_begin_ <= aggr_buffer_map_[k].ts_end_

\* C17: a live bucket whose ts_begin is not -1 satisfies ts_begin <= ts_end
\* when the window is time-ranged or the bucket has a row folded; a
\* row-count bucket that a rollover reopened and that has no row folded yet
\* has ts_end = 0.
RangeOrderedWhenFolded ==
    \A k \in DOMAIN aggr_buffer_map_ :
        LET b == aggr_buffer_map_[k]
        IN b.ts_begin_ # -1
           => IF window_type_ = "kRowsRange" \/ b.aggr_cnt_ > 0
              THEN b.ts_begin_ <= b.ts_end_
              ELSE b.ts_end_ = 0

\* An Update of a row-count window has rolled the bucket over and returned
\* through the late branch: the bucket is empty and starts after its end.
RangeOrderedWhenFoldedSeen ==
    /\ window_type_ = "kRowsNum"
    /\ ret = [op |-> "Update", ok |-> TRUE]
    /\ <<"a">> \in DOMAIN aggr_buffer_map_
    /\ aggr_buffer_map_[<<"a">>].aggr_cnt_ = 0
    /\ aggr_buffer_map_[<<"a">>].ts_begin_ = MaxTs + 1
    /\ aggr_buffer_map_[<<"a">>].ts_end_ = 0
    /\ Len(aggr_table_) = 2

\* C18: every live bucket satisfies aggr_cnt >= non_null_cnt >= 0.
CountsOrdered ==
    \A k \in DOMAIN aggr_buffer_map_ :
        /\ aggr_buffer_map_[k].aggr_cnt_ >= aggr_buffer_map_[k].non_null_cnt_
        /\ aggr_buffer_map_[k].non_null_cnt_ >= 0

\* COUNT over "*" with a time window: the rows of offsets 1 and 2 flushed a
\* row, the process restarted with offset 2 lost, Init seeded the bucket from
\* the flushed row, and a null row, again of offset 2, was folded into it.
CountsOrderedSeen ==
    /\ aggr_type_ = "kCount"
    /\ count_all
    /\ window_type_ = "kRowsRange"
    /\ crashes = 1
    /\ status_ = "kInited"
    /\ Len(fed) = 3
    /\ fed[1].offset = 1 /\ fed[2].offset = 2 /\ fed[3].offset = 2
    /\ fed[1].row.ts = 0 /\ fed[2].row.ts = MaxTs /\ fed[3].row.ts = MaxTs
    /\ IsNULL(fed[3].row.val)
    /\ ret = [op |-> "Update", ok |-> TRUE]
    /\ Len(aggr_table_) = 1
    /\ aggr_buffer_map_[<<"a">>].aggr_cnt_ = 1
    /\ aggr_buffer_map_[<<"a">>].non_null_cnt_ = 1

\* The live buckets the Updates of a step start from: the seeded buckets
\* for the replay of Init, the live buckets otherwise.
BucketsBefore ==
    IF init_pc[1] = "recovering" /\ init_pc'[1] = "idle"
    THEN Seed(aggr_buffer_map_, aggr_table_)
    ELSE aggr_buffer_map_

\* C19: the binlog_offset of the live bucket of a key never decreases over
\* the Updates of the writer, the Updates of the replay, their rollovers and
\* FlushAll.
OffsetNeverDecreases ==
    [][crashes' = crashes
       => \A k \in DOMAIN BucketsBefore :
              /\ k \in DOMAIN aggr_buffer_map_'
              /\ aggr_buffer_map_'[k].binlog_offset_ >= BucketsBefore[k].binlog_offset_]_vars

\* After a restart that lost the tail of the binlog, the bucket seeded from
\* a flushed row has turned away a row of an offset below its own.
OffsetNeverDecreasesSeen ==
    /\ crashes = 1
    /\ lost
    /\ status_ = "kInited"
    /\ ret = [op |-> "Update", ok |-> FALSE]
    /\ Len(aggr_table_) >= 1
    /\ aggr_buffer_map_[<<"a">>].binlog_offset_ > LastFed.offset

(***************************************************************************)
(* Offsets folded and offsets published.                                   *)
(***************************************************************************)
\* The buckets, flushed or live, that hold the base offset o.
BucketsHolding(o) ==
    {<<BucketKeyOf(aggr_table_[i]), aggr_table_[i].value.ts_begin>> :
        i \in {j \in 1..Len(aggr_table_) : o \in aggr_table_[j].value.offs}}
    \cup {<<k, aggr_buffer_map_[k].ts_begin_>> :
              k \in {q \in DOMAIN aggr_buffer_map_ : o \in aggr_buffer_map_[q].offs}}

AcceptedOffsets ==
    {fed[i].offset : i \in {j \in 1..Len(fed) : fed[j].handed /\ fed[j].ok}}

\* Every row of the aggregate table has rows folded and carries the highest
\* offset folded into its bucket.
RowsCarryHighestFolded ==
    \A i \in 1..Len(aggr_table_) :
        /\ aggr_table_[i].value.aggr_cnt # 0
        /\ aggr_table_[i].value.offs # {}
        /\ aggr_table_[i].value.binlog_offset = SetMax(aggr_table_[i].value.offs)

\* C20: every row a flush writes carries the highest base offset folded
\* into its bucket, so no row has aggr_cnt = 0 or an offset never folded;
\* and, while the aggregator serves and no offset was handed out twice,
\* every offset a successful Update accepted is held by exactly one bucket.
FlushedOffsetsFolded ==
    /\ RowsCarryHighestFolded
    /\ (status_ = "kInited" /\ ~lost)
           => \A o \in AcceptedOffsets : Cardinality(BucketsHolding(o)) = 1

(***************************************************************************)
(* Failures of Update.                                                     *)
(***************************************************************************)
\* C21: a live Update whose offset is below the binlog_offset of the key's
\* live bucket returns false and changes neither the buckets nor the
\* aggregate table nor its replicator.
BackwardOffsetRefused ==
    [][(/\ fed' # fed
        /\ status_ = "kInited"
        /\ LastFed'.handed
        /\ LastFed'.key \in DOMAIN aggr_buffer_map_
        /\ LastFed'.offset < aggr_buffer_map_[LastFed'.key].binlog_offset_)
       => /\ ret' = [op |-> "Update", ok |-> FALSE]
          /\ aggr_buffer_map_' = aggr_buffer_map_
          /\ aggr_table_' = aggr_table_
          /\ aggr_replicator_' = aggr_replicator_]_vars

(***************************************************************************)
(* Threads in Update.                                                      *)
(***************************************************************************)
\* The calls of Update in the order order, one after the other, on the
\* aggregator as constructed and initialised.
RECURSIVE OneByOne(_, _, _)
OneByOne(w, order, i) ==
    IF i > Len(order) THEN [w |-> w, oks |-> <<>>]
    ELSE LET c == fed[order[i]]
             r == Update(w, "kInited", c.key, c.row, c.offset, FALSE, TRUE)
             rest == OneByOne(r.w, order, i + 1)
         IN [w |-> rest.w, oks |-> <<r.ok>> \o rest.oks]

\* The latest row of every bucket of a table.
Visible(table) ==
    {table[i].value : i \in {j \in 1..Len(table) :
        \A k \in 1..Len(table) :
            (/\ table[k].pk = table[j].pk
             /\ table[k].value.ts_begin = table[j].value.ts_begin) => k <= j}}

AllReturned ==
    status_ = "kInited" /\ \A t \in Writers : update_pc[t].pc = "idle"

\* C22: when the calls of Update on one key have returned, the live bucket,
\* the rows the aggregate table shows and the results are those of the calls
\* made one after the other in some order, and the calls that returned true
\* are counted once each.
UpdatesSerialised ==
    AllReturned
    => /\ \E order \in Perms(1..Len(fed)) :
              LET r == OneByOne([map |-> <<>>, table |-> <<>>, repl |-> <<>>, dims |-> NoDimensions],
                                order, 1)
              IN /\ r.w.map = aggr_buffer_map_
                 /\ Visible(r.w.table) = Visible(aggr_table_)
                 /\ \A i \in 1..Len(order) : r.oks[i] = fed[order[i]].ok
       /\ Counted(<<"a">>) = Cardinality({i \in 1..Len(fed) : fed[i].ok})

\* A step of FlushAll.
FlushAllStep ==
    ret'.op = "FlushAll" /\ update_pc' = update_pc /\ init_pc' = init_pc

\* C23: FlushAll reads no bucket whose mutex a thread in Update holds.
BucketsReadUnderMutex ==
    [][FlushAllStep
       => \A k \in DOMAIN aggr_buffer_map_ : ~BucketLocked(k)]_vars

(***************************************************************************)
(* CreateAggregator.                                                       *)
(***************************************************************************)
\* The string is digits followed by one of s, m, h, d in either case.
IsTimeSize(str) ==
    /\ Len(str) >= 2
    /\ IsNumber(SubSeq(str, 1, Len(str) - 1))
    /\ str[Len(str)] \in {"s", "m", "h", "d", "S", "M", "H", "D"}

\* C24: CreateAggregator returns a row-count window of size n for a string
\* of digits n, a time window of n times the milliseconds of the unit for
\* digits n followed by s, m, h or d in either case, the size being the
\* product itself, and no aggregator for every other string.
BucketSizeParsed ==
    create_call.pc = "done"
    => LET str == create_call.bucket_size
       IN IF IsNumber(str)
          THEN create_call.result = Aggregator("kRowsNum", Product(stoi(str), 1))
          ELSE IF IsTimeSize(str)
          THEN create_call.result =
                   Aggregator("kRowsRange",
                              Product(stoi(SubSeq(str, 1, Len(str) - 1)),
                                      MillisOf(tolower(str[Len(str)]))))
          ELSE create_call.result = NoAggregator

(***************************************************************************)
(* The buckets of a time window.                                           *)
(***************************************************************************)
\* The timestamp of the first row the aggregator was handed for bucket key k.
FirstTs(k) ==
    LET handed == {i \in 1..Len(fed) :
                      /\ fed[i].handed
                      /\ GetAggregateKey(fed[i].key, fed[i].row) = k}
    IN fed[SetMin(handed)].row.ts

\* Every live bucket of a time window spans window_size_ milliseconds and
\* begins a whole number of windows after the first row of its key.
WindowsAligned ==
    window_type_ = "kRowsRange"
    => \A k \in DOMAIN aggr_buffer_map_ :
           LET b == aggr_buffer_map_[k]
           IN b.ts_begin_ # -1
              => /\ b.ts_end_ = b.ts_begin_ + window_size_ - 1
                 /\ (b.ts_begin_ - FirstTs(k)) % window_size_ = 0

\* An Update has moved the live bucket of its key to another ts_begin.
RolledOver(k) ==
    /\ fed' # fed
    /\ window_type_ = "kRowsRange"
    /\ k \in DOMAIN aggr_buffer_map_
    /\ aggr_buffer_map_[k].ts_begin_ # -1
    /\ aggr_buffer_map_'[k].ts_begin_ # aggr_buffer_map_[k].ts_begin_

\* C25: in a time window of size W every live bucket with ts_begin # -1 has
\* ts_end = ts_begin + W - 1 and begins at first_ts + k * W, first_ts being
\* the timestamp of the key's first row; a rollover publishes the live
\* bucket under its range and opens the next at its ts_end + 1.
WindowsContiguous ==
    /\ []WindowsAligned
    /\ [][\A k \in DOMAIN aggr_buffer_map_ :
             RolledOver(k)
             => /\ aggr_buffer_map_'[k].ts_begin_ = aggr_buffer_map_[k].ts_end_ + 1
                /\ \E i \in Len(aggr_table_) + 1..Len(aggr_table_') :
                       /\ aggr_table_'[i].value.key = k
                       /\ aggr_table_'[i].value.ts_begin = aggr_buffer_map_[k].ts_begin_
                       /\ aggr_table_'[i].value.ts_end = aggr_buffer_map_[k].ts_end_]_vars

(***************************************************************************)
(* Late arrivals.                                                          *)
(***************************************************************************)
\* The step is a live Update of a row whose timestamp is below the ts_begin
\* of the live bucket of its key.
LateUpdate ==
    /\ fed' # fed
    /\ LastFed'.handed
    /\ status_ = "kInited"
    /\ GetAggregateKey(LastFed'.key, LastFed'.row) \in DOMAIN aggr_buffer_map_
    /\ LastFed'.row.ts <
           aggr_buffer_map_[GetAggregateKey(LastFed'.key, LastFed'.row)].ts_begin_

\* The rows the step has added to the aggregate table.
RowsAdded == Len(aggr_table_) + 1..Len(aggr_table_')

\* C26: while the aggregator is Inited, an Update whose timestamp is below
\* the live bucket's ts_begin and whose offset is not below the bucket's
\* binlog_offset returns true, and writes a row of the aggregate table whose
\* [ts_begin, ts_end] contains the timestamp and which counts the row.
LateAlwaysMerged ==
    [][(/\ LateUpdate
        /\ LastFed'.offset >=
               aggr_buffer_map_[GetAggregateKey(LastFed'.key, LastFed'.row)].binlog_offset_)
       => /\ ret' = [op |-> "Update", ok |-> TRUE]
          /\ \E i \in RowsAdded :
                 /\ aggr_table_'[i].value.key = LastFed'.key
                 /\ aggr_table_'[i].value.ts_begin <= LastFed'.row.ts
                 /\ LastFed'.row.ts <= aggr_table_'[i].value.ts_end
                 /\ LastFed'.offset \in aggr_table_'[i].value.offs]_vars

\* The fields of a bucket.
FieldsOf(b) ==
    <<b.ts_begin_, b.ts_end_, b.aggr_cnt_, b.non_null_cnt_, b.binlog_offset_,
      b.aggr_val_>>

LateKey == GetAggregateKey(LastFed'.key, LastFed'.row)

\* C27, as the specification states it: a late Update leaves the fields of
\* the live bucket of its key as they were, in both kinds of window.
LateLeavesLiveBucket ==
    [][LateUpdate
       => FieldsOf(aggr_buffer_map_'[LateKey]) = FieldsOf(aggr_buffer_map_[LateKey])]_vars

\* C27: a late Update made while the aggregator is Inited leaves the fields
\* of the live bucket as they were, unless the window is row-count and the
\* bucket holds window_size_ rows on entry: then the Update publishes the
\* bucket and leaves it reopened, with ts_begin at the old ts_end + 1,
\* ts_end 0, no rows, no value and binlog_offset one above the old.
LateLeavesLiveBucketUnlessFull ==
    [][LateUpdate
       => LET b == aggr_buffer_map_[LateKey]
          IN FieldsOf(aggr_buffer_map_'[LateKey]) =
                 IF window_type_ = "kRowsNum" /\ b.aggr_cnt_ >= window_size_
                 THEN <<b.ts_end_ + 1, 0, 0, 0, b.binlog_offset_ + 1, 0>>
                 ELSE FieldsOf(b)]_vars

\* A late Update of a row-count window has found the bucket full: it has
\* published it, reopened it and written the late row as a bucket of its own.
LateLeavesLiveBucketSeen ==
    /\ window_type_ = "kRowsNum"
    /\ ret = [op |-> "Update", ok |-> TRUE]
    /\ Len(fed) = 3
    /\ fed[3].row.ts = 0
    /\ fed[2].row.ts = MaxTs
    /\ <<"a">> \in DOMAIN aggr_buffer_map_
    /\ FieldsOf(aggr_buffer_map_[<<"a">>]) = <<MaxTs + 1, 0, 0, 0, 3, 0>>
    /\ Len(aggr_table_) = 2
    /\ aggr_table_[2].value.ts_begin = 0
    /\ aggr_table_[2].value.ts_end = 0

\* The row the late-arrival merge of the step has located: the step is a
\* live Update that got past the offset guard with a timestamp below the
\* live bucket's ts_begin, and the aggregate table holds a row of the key
\* that begins at or before that timestamp.
Located ==
    Seek(aggr_table_', LastFed'.key, LastFed'.row.ts + 1)

MergeLocatedOutOfRange ==
    /\ fed' # fed
    /\ LastFed'.handed
    /\ status_ = "kInited"
    /\ LateKey \in DOMAIN aggr_buffer_map_
    /\ LastFed'.row.ts < aggr_buffer_map_'[LateKey].ts_begin_
    /\ LastFed'.offset >= aggr_buffer_map_'[LateKey].binlog_offset_
    /\ Located # {}
    /\ LET found == aggr_table_'[FirstOf(aggr_table_', Located)].value
       IN LastFed'.row.ts > found.ts_end \/ LastFed'.row.ts < found.ts_begin

\* C28: when the late-arrival merge locates a row whose [ts_begin, ts_end]
\* does not contain the late row's timestamp, Update returns false, writes
\* no row to the aggregate table or its replicator and leaves the fields of
\* the live bucket as they were.
OutOfRangeMergeMutatesNothing ==
    [][MergeLocatedOutOfRange
       => /\ ret' = [op |-> "Update", ok |-> FALSE]
          /\ aggr_table_' = aggr_table_
          /\ aggr_replicator_' = aggr_replicator_
          /\ FieldsOf(aggr_buffer_map_'[LateKey]) =
                 FieldsOf(aggr_buffer_map_[LateKey])]_vars

(***************************************************************************)
(* Rows whose aggregated column is NULL.                                   *)
(***************************************************************************)
\* The step is a live Update of a row whose aggregated column is NULL.
NullUpdate ==
    /\ fed' # fed
    /\ LastFed'.handed
    /\ IsNULL(LastFed'.row.val)

\* The bucket the Update of the step folds into: the live bucket of the key
\* once its range is set and, when it was filled, reopened.
FoldedInto ==
    LET b1 == InitRange(IF LateKey \in DOMAIN aggr_buffer_map_
                        THEN aggr_buffer_map_[LateKey]
                        ELSE AggrBuffer(Len(LastFed'.key)),
                        LastFed'.row.ts)
    IN IF CheckBufferFilled(LastFed'.row.ts, b1.ts_end_, b1.aggr_cnt_)
       THEN Reopen(b1) ELSE b1

\* The Update of the step reaches the fold.
Folds ==
    /\ status_ = "kInited"
    /\ LastFed'.offset >= FoldedInto.binlog_offset_
    /\ LastFed'.row.ts >= FoldedInto.ts_begin_

\* SUM and COUNT of a column publish 0 for a bucket of null rows.
NullsPublishZero ==
    (aggr_type_ \in {"kSum", "kCount"} /\ ~count_all)
    => \A i \in 1..Len(aggr_table_) :
           OnlyNulls(aggr_table_[i].value.offs)
           => aggr_table_[i].value.aggr_val = [null |-> FALSE, data |-> EncodeInt64(0)]

\* C29: an Update of a row whose aggregated column is NULL returns what it
\* returns for the same row with a value; when it folds the row, it returns
\* true, adds 1 to aggr_cnt and sets binlog_offset, leaves aggr_val as it
\* was, and adds 1 to non_null_cnt exactly for COUNT and COUNT_WHERE over
\* "*"; SUM and COUNT publish 0 for buckets of null rows.
NullRowsFold ==
    /\ []NullsPublishZero
    /\ [][NullUpdate
          => /\ ret'.ok = Update(World, status_, LastFed'.key,
                                 [LastFed'.row EXCEPT !.val = <<1>>],
                                 LastFed'.offset, FALSE, TRUE).ok
             /\ Folds
                => /\ ret' = [op |-> "Update", ok |-> TRUE]
                   /\ aggr_buffer_map_'[LateKey].aggr_cnt_ = FoldedInto.aggr_cnt_ + 1
                   /\ aggr_buffer_map_'[LateKey].binlog_offset_ = LastFed'.offset
                   /\ aggr_buffer_map_'[LateKey].aggr_val_ = FoldedInto.aggr_val_
                   /\ aggr_buffer_map_'[LateKey].non_null_cnt_ =
                          FoldedInto.non_null_cnt_ + (IF count_all THEN 1 ELSE 0)]_vars

\* COUNT of a column, row-count window: two null rows were published with
\* the value 0 and a third null row is folded into the reopened bucket.
NullRowsFoldSeen ==
    /\ aggr_type_ = "kCount"
    /\ ~count_all
    /\ window_type_ = "kRowsNum"
    /\ ret = [op |-> "Update", ok |-> TRUE]
    /\ Len(fed) = 3
    /\ \A i \in 1..3 : IsNULL(fed[i].row.val)
    /\ Len(aggr_table_) = 1
    /\ aggr_table_[1].value.aggr_cnt = 2
    /\ aggr_table_[1].value.aggr_val = [null |-> FALSE, data |-> EncodeInt64(0)]
    /\ <<"a">> \in DOMAIN aggr_buffer_map_
    /\ aggr_buffer_map_[<<"a">>].aggr_cnt_ = 1
    /\ aggr_buffer_map_[<<"a">>].non_null_cnt_ = 0
    /\ aggr_buffer_map_[<<"a">>].binlog_offset_ = 3

(***************************************************************************)
(* A failing Put of the aggregate table.                                   *)
(***************************************************************************)
\* The step is a live Update that finds the live bucket of its key filled
\* and whose rollover does not get the bucket into the aggregate table.
RolloverPutFailed ==
    /\ fed' # fed
    /\ LastFed'.handed
    /\ status_ = "kInited"
    /\ LateKey \in DOMAIN aggr_buffer_map_
    /\ aggr_buffer_map_[LateKey].ts_begin_ # -1
    /\ CheckBufferFilled(LastFed'.row.ts, aggr_buffer_map_[LateKey].ts_end_,
                         aggr_buffer_map_[LateKey].aggr_cnt_)
    /\ \A i \in RowsAdded :
           aggr_table_'[i].value # EncodeRow(LateKey, aggr_buffer_map_[LateKey])

\* C30: when the aggregate table's Put fails in the flush of a rollover,
\* Update returns true and leaves the live bucket reopened at the old
\* ts_end + 1 with the current row as its only row; the bucket that was not
\* written is not in the aggregate table.
FailedFlushFoldsOn ==
    [][RolloverPutFailed
       => /\ ret' = [op |-> "Update", ok |-> TRUE]
          /\ aggr_buffer_map_'[LateKey].ts_begin_ =
                 aggr_buffer_map_[LateKey].ts_end_ + 1
          /\ aggr_buffer_map_'[LateKey].aggr_cnt_ = 1
          /\ aggr_buffer_map_'[LateKey].binlog_offset_ = LastFed'.offset
          /\ aggr_buffer_map_'[LateKey].aggr_val_ = LastFed'.row.val[1]
          /\ aggr_table_' = aggr_table_]_vars

\* The encoded rows of a sequence of table rows or of log entries, in order.
EncodedRows(seq) == [i \in DOMAIN seq |-> seq[i].value]

\* No thread is inside FlushAggrBuffer.
NoFlushRunning ==
    \A t \in Writers : update_pc[t].pc \notin {"aggr_put", "append"}

FlushAllWrote ==
    /\ ret' = [op |-> "FlushAll", ok |-> TRUE]
    /\ Len(aggr_table_') > Len(aggr_table_)

\* C32: a FlushAll that returns true writes the snapshot of every bucket that
\* has rows and closes the bucket: the live bucket is left with no rows and
\* with ts_begin above the ts_end of the row written.
FlushAllClosesBuckets ==
    [][FlushAllWrote
       => \A k \in ToFlush(aggr_buffer_map_) :
              /\ \E i \in Len(aggr_table_) + 1..Len(aggr_table_') :
                     aggr_table_'[i].value = EncodeRow(k, aggr_buffer_map_[k])
              /\ aggr_buffer_map_'[k].aggr_cnt_ = 0
              /\ aggr_buffer_map_'[k].ts_begin_ > aggr_buffer_map_[k].ts_end_]_vars

\* The mutexes thread t holds.
HeldBy(t) == {h[2] : h \in {g \in held : g[1] = t}}

\* Thread t is at a write of FlushAggrBuffer: the Put into the aggregate
\* table or the append to the replicator.
AtWrite(t) == update_pc[t].pc \in {"aggr_put", "append"}

\* C33: a thread that is about to write to the aggregate table or to the
\* replicator holds no mutex of the aggregator, and no thread holds mu_
\* together with a bucket's mutex.
WritesUnlocked ==
    \A t \in Writers :
        /\ AtWrite(t) => HeldBy(t) = {}
        /\ mu_ \in HeldBy(t) => HeldBy(t) = {mu_}

\* A thread is between the Put and the append of a rollover's flush, holding
\* nothing, while the other thread holds mu_ in FlushAll; or a thread is at
\* the Put of a late-arrival merge while the other thread holds mu_.
WritesUnlockedSeen ==
    \/ \E t, u \in Writers :
           /\ update_pc[t].pc = "append"
           /\ update_pc[t].site = "rollover"
           /\ HeldBy(t) = {}
           /\ HeldBy(u) = {mu_}
    \/ \E t, u \in Writers :
           /\ update_pc[t].pc = "aggr_put"
           /\ update_pc[t].site = "merge"
           /\ HeldBy(t) = {}
           /\ HeldBy(u) = {mu_}

\* C34: every row of the aggregate table is stored under the key of its own
\* encoded row, and every entry of the replicator log carries the dimension
\* key of its own primary key.
OwnDimensionKey ==
    /\ \A i \in DOMAIN aggr_table_ :
           aggr_table_[i].pk = aggr_table_[i].value.key
    /\ \A i \in DOMAIN aggr_replicator_ :
           aggr_replicator_[i].dimensions[1].key = aggr_replicator_[i].pk

\* Thread t is inside a call of Update or of FlushAll.
InCall(t) == update_pc[t].pc # "idle"

\* C35: every call of Update and of FlushAll that a thread has entered
\* eventually returns.
CallsReturn == \A t \in Writers : InCall(t) ~> ~InCall(t)

\* Both threads are inside calls on the same key: one waits for the bucket's
\* mutex, which the other holds.
CallsReturnSeen ==
    \E t, u \in Writers :
        /\ update_pc[t].pc \in {"lock", "relock"}
        /\ update_pc[u].pc = "fold"
        /\ update_pc[u].aggr_key = update_pc[t].aggr_key
        /\ HeldBy(u) = {update_pc[u].aggr_key}

\* The timestamps of the rows written at the binlog offsets offs.
TimestampsAt(offs) == {base_log[o].value.ts : o \in offs}

\* C37: in a time window the rows folded into a live bucket, and the rows a
\* published row aggregates, have their timestamps in the bucket's
\* [ts_begin, ts_end].
FoldedInsideRange ==
    window_type_ = "kRowsRange"
    => /\ \A k \in DOMAIN aggr_buffer_map_ :
              \A ts \in TimestampsAt(aggr_buffer_map_[k].offs) :
                  /\ aggr_buffer_map_[k].ts_begin_ <= ts
                  /\ ts <= aggr_buffer_map_[k].ts_end_
       /\ \A i \in DOMAIN aggr_table_ :
              \A ts \in TimestampsAt(aggr_table_[i].value.offs) :
                  /\ aggr_table_[i].value.ts_begin <= ts
                  /\ ts <= aggr_table_[i].value.ts_end

\* The step is a live Update, made while the aggregator is Inited, whose
\* offset is not below the binlog_offset the live bucket of its key holds.
FreshUpdate ==
    /\ fed' # fed
    /\ LastFed'.handed
    /\ status_ = "kInited"
    /\ LateKey \in DOMAIN aggr_buffer_map_
    /\ LastFed'.offset >= aggr_buffer_map_[LateKey].binlog_offset_

\* C38: an Update whose offset is not below the binlog_offset that the live
\* bucket of its key holds when the call starts passes the offset guard, also
\* when the call rolls the bucket over first.
FreshPassesGuard ==
    [][FreshUpdate => ~OffsetGuard(LastFed'.offset, FoldedInto)]_vars

\* The row of the aggregate table that a late-arrival merge finds for the
\* Update of the step, when the step writes nothing before the merge.
FoundRow ==
    aggr_table_[FirstOf(aggr_table_,
                        Seek(aggr_table_, LastFed'.key, LastFed'.row.ts + 1))].value

\* The step is a late-arrival Update that has rewritten a row it found in the
\* aggregate table, and has written nothing else.
LateMerged ==
    /\ LateUpdate
    /\ ret'.ok
    /\ Seek(aggr_table_, LastFed'.key, LastFed'.row.ts + 1) # {}
    /\ Len(aggr_table_') = Len(aggr_table_) + 1
    /\ aggr_table_'[Len(aggr_table_')].value.binlog_offset = LastFed'.offset
    /\ aggr_table_'[Len(aggr_table_')].value.ts_begin = FoundRow.ts_begin

\* Field 4 of a MIN or MAX row that held field 4 old, once the value val of
\* a late row is merged into it.
ExtremeWith(old, val) ==
    IF IsNULL(val) THEN old
    ELSE IF old.null THEN [null |-> FALSE, data |-> EncodeInt64(val[1])]
    ELSE [null |-> FALSE,
          data |-> EncodeInt64(IF aggr_type_ = "kMin"
                               THEN Min2(DecodeInt64(old.data), val[1])
                               ELSE Max2(DecodeInt64(old.data), val[1]))]

\* C39: for MIN and MAX, the row a late-arrival merge rewrites holds the
\* minimum (maximum) of the value it held and the late row's value; a late
\* NULL leaves the value as it was.
LateMergeKeepsExtreme ==
    [][(LateMerged /\ aggr_type_ \in {"kMin", "kMax"})
       => aggr_table_'[Len(aggr_table_')].value.aggr_val =
              ExtremeWith(FoundRow.aggr_val, LastFed'.row.val)]_vars

\* The step ends the replay loop of an Init in which a read or a parse failed.
ReplayFailedEnds ==
    /\ log_reader.pc = "open"
    /\ log_reader.failed
    /\ log_reader'.pc = "closed"
    /\ crashes' = crashes

\* C36: an Init whose replay met a record that could not be read or parsed
\* returns false and leaves the status kUnInit.
ReplayErrorAborts ==
    [][ReplayFailedEnds
       => /\ ~ret'.ok
          /\ status_' = "kUnInit"]_vars

\* The thread is inside Init.
InInit == init_pc[1] # "idle"

\* C40: an Init that has been entered returns.
InitReturns == InInit ~> ~InInit

====
